---- MODULE Spec2Model ----
(***************************************************************************)
(* Model of the AI news platform: the SQLite store (backend/storage/db.py), *)
(* the parallel ingest orchestrator (backend/pipeline/orchestrator.py) and  *)
(* URL canonicalization (backend/denoise/dedup.py).                         *)
(*                                                                          *)
(* Text is modelled as a sequence of one-character strings, so that the     *)
(* string operations of the source (strip, lower, rstrip, find, split) are  *)
(* computed and not assumed.                                                *)
(***************************************************************************)
EXTENDS Integers, Sequences, FiniteSets, TLC

\* ------------------------------------------------------------------------
\* Bounds of the model
\* ------------------------------------------------------------------------

\* number of ingest_all calls explored
MaxRuns == 2

\* largest max_concurrent the orchestrator is constructed with
MaxPermits == 2

\* batch_size of the DatabaseManager under test (chunk length of batch writes)
BatchSize == 2

\* number of store operations each direct client of the DatabaseManager issues
MaxClientOps == 1

\* number of digest commands explored
MaxDigests == 2

\* number of failing statements injected in the fault specification
MaxFaults == 1

\* number of apply_migrations calls explored
MaxMigrateRuns == 3

\* number of failing statements injected in migrations
MaxMigrateFaults == 1

\* cluster_items: items in a list
MaxItems == 3

\* MinHash, reduced: number of hash functions (_DEFAULT_NUM_PERM), bands and
\* rows per band of the LSH index, the prime of the hash family
\* (_LARGE_PRIME) and the largest hash value (_MAX_HASH)
NumPerm == 4
NumBands == 2
RowsPerBand == 2
LargePrime == 13
MaxHash == 7

\* apply_quotas: items in a list, besides the list of five and five
MaxScored == 4

\* QuotaManager: the quota without "default", the limit of a category
\* without limit
DefaultQuota == 20
DefaultLimit == 20

\* the characters of the title a fallback summary has, and of the content
\* the cache key is made of
FallbackCut == 200
KeyCut == 200

\* number of score_items and score_item calls on one Scorer
MaxScoreCalls == 3

\* items of a summarize call
MaxSummaryItems == 2

\* items generate_digest is called with
MaxGenItems == 3

\* rows of items a query runs on
MaxQueryRows == 3

\* save_digest calls on one connection
MaxSaves == 3

\* items filter_popularity is called with
MaxFilterItems == 2

\* QuotaManagers built from one configuration
MaxManagers == 3

\* _shingle: k
ShingleSize == 3

\* cluster_items: rep.content[:500]
ContentCut == 500

\* ------------------------------------------------------------------------
\* Text helpers (Python str methods on character sequences)
\* ------------------------------------------------------------------------

UpperToLower ==
    [c \in {"H", "T", "P", "S", "E", "C", "W", "U", "R", "F"} |->
        CASE c = "H" -> "h" [] c = "T" -> "t" [] c = "P" -> "p"
          [] c = "S" -> "s" [] c = "E" -> "e" [] c = "C" -> "c"
          [] c = "W" -> "w" [] c = "U" -> "u" [] c = "R" -> "r"
          [] c = "F" -> "f"]

LowerChar(c) == IF c \in DOMAIN UpperToLower THEN UpperToLower[c] ELSE c

\* str.lower()
Lower(s) == [i \in 1..Len(s) |-> LowerChar(s[i])]

RECURSIVE RStrip(_, _)
\* str.rstrip(ch)
RStrip(s, ch) ==
    IF s # <<>> /\ s[Len(s)] = ch THEN RStrip(SubSeq(s, 1, Len(s) - 1), ch) ELSE s

RECURSIVE LStrip(_, _)
LStrip(s, ch) ==
    IF s # <<>> /\ s[1] = ch THEN LStrip(Tail(s), ch) ELSE s

\* str.strip() over the only whitespace character of the alphabet
Strip(s) == RStrip(LStrip(s, " "), " ")

\* str.find(ch): 0-based index of the first ch in s, -1 when absent
Find(s, chs) ==
    IF \E i \in 1..Len(s) : s[i] \in chs
    THEN (CHOOSE i \in 1..Len(s) : s[i] \in chs /\ \A j \in 1..(i - 1) : s[j] \notin chs) - 1
    ELSE -1

\* s[:n] and s[n:] with Python's 0-based slicing
Prefix(s, n) == SubSeq(s, 1, n)
Suffix(s, n) == SubSeq(s, n + 1, Len(s))

RECURSIVE Split(_, _)
\* str.split(ch): the pieces of s between occurrences of ch
Split(s, ch) ==
    LET i == Find(s, {ch})
    IN  IF i = -1 THEN <<s>> ELSE <<Prefix(s, i)>> \o Split(Suffix(s, i + 1), ch)

RECURSIVE Join(_, _)
\* ch.join(parts)
Join(parts, ch) ==
    IF parts = <<>> THEN <<>>
    ELSE IF Len(parts) = 1 THEN parts[1]
    ELSE parts[1] \o <<ch>> \o Join(Tail(parts), ch)

\* ------------------------------------------------------------------------
\* urllib.parse as used by canonical_url
\* ------------------------------------------------------------------------

SchemeChars ==
    {"a", "b", "c", "d", "e", "f", "g", "h", "i", "l", "m", "o", "p", "r", "s",
     "t", "u", "w", "x", "y", "H", "T", "P", "S", "E", "C", "W", "U", "R", "F",
     "1", "2", "+", "-", "."}

S_http == <<"h", "t", "t", "p">>
S_https == <<"h", "t", "t", "p", "s">>

\* urllib.parse.uses_netloc, restricted to the schemes of the alphabet
UsesNetloc == {<<>>, S_http, S_https}

\* urllib.parse.urlparse: (scheme, netloc, path, query, fragment)
UrlParse(url) ==
    LET i == Find(url, {":"})
        hasScheme == i > 0 /\ \A k \in 1..i : url[k] \in SchemeChars
        scheme == IF hasScheme THEN Lower(Prefix(url, i)) ELSE <<>>
        u1 == IF hasScheme THEN Suffix(url, i + 1) ELSE url
        hasNetloc == Len(u1) >= 2 /\ Prefix(u1, 2) = <<"/", "/">>
        afterSlashes == Suffix(u1, 2)
        d == Find(afterSlashes, {"/", "?", "#"})
        netloc == IF ~hasNetloc THEN <<>>
                  ELSE IF d = -1 THEN afterSlashes ELSE Prefix(afterSlashes, d)
        u2 == IF ~hasNetloc THEN u1
              ELSE IF d = -1 THEN <<>> ELSE Suffix(afterSlashes, d)
        f == Find(u2, {"#"})
        fragment == IF f = -1 THEN <<>> ELSE Suffix(u2, f + 1)
        u3 == IF f = -1 THEN u2 ELSE Prefix(u2, f)
        q == Find(u3, {"?"})
        query == IF q = -1 THEN <<>> ELSE Suffix(u3, q + 1)
        path == IF q = -1 THEN u3 ELSE Prefix(u3, q)
    IN  [scheme |-> scheme, netloc |-> netloc, path |-> path,
         query |-> query, fragment |-> fragment]

\* urllib.parse.urlunparse with empty params
UrlUnparse(scheme, netloc, path, query, fragment) ==
    LET withNetloc ==
            netloc # <<>> \/ (scheme # <<>> /\ scheme \in UsesNetloc
                              /\ ~(Len(path) >= 2 /\ Prefix(path, 2) = <<"/", "/">>))
        p1 == IF withNetloc /\ path # <<>> /\ path[1] # "/" THEN <<"/">> \o path ELSE path
        u1 == IF withNetloc THEN <<"/", "/">> \o netloc \o p1 ELSE path
        u2 == IF scheme # <<>> THEN scheme \o <<":">> \o u1 ELSE u1
        u3 == IF query # <<>> THEN u2 \o <<"?">> \o query ELSE u2
    IN  IF fragment # <<>> THEN u3 \o <<"#">> \o fragment ELSE u3

\* one "name=value" field of a query string: parse_qsl with keep_blank_values
NameValue(field) ==
    LET e == Find(field, {"="})
    IN  IF e = -1 THEN <<field, <<>>>> ELSE <<Prefix(field, e), Suffix(field, e + 1)>>

RECURSIVE GroupPairs(_, _)
\* parse_qs: the dict name -> [values], in order of first appearance of name
GroupPairs(fields, acc) ==
    IF fields = <<>> THEN acc
    ELSE IF fields[1] = <<>> THEN GroupPairs(Tail(fields), acc)
    ELSE LET nv == NameValue(fields[1])
             at == {k \in 1..Len(acc) : acc[k][1] = nv[1]}
         IN  IF at = {}
             THEN GroupPairs(Tail(fields), Append(acc, <<nv[1], <<nv[2]>>>>))
             ELSE LET k == CHOOSE k \in at : TRUE
                  IN  GroupPairs(Tail(fields),
                                 [acc EXCEPT ![k] = <<acc[k][1], Append(acc[k][2], nv[2])>>])

ParseQs(query) == GroupPairs(Split(query, "&"), <<>>)

RECURSIVE EncodePairs(_)
\* urlencode(dict, doseq=True) as the list of "name=value" fields
EncodePairs(groups) ==
    IF groups = <<>> THEN <<>>
    ELSE [j \in 1..Len(groups[1][2]) |-> groups[1][1] \o <<"=">> \o groups[1][2][j]]
         \o EncodePairs(Tail(groups))

UrlEncode(groups) == Join(EncodePairs(groups), "&")

\* ------------------------------------------------------------------------
\* canonical_url
\* ------------------------------------------------------------------------

_strip_params ==
    { <<"u", "t", "m", "_", "s", "o", "u", "r", "c", "e">>,
      <<"u", "t", "m", "_", "m", "e", "d", "i", "u", "m">>,
      <<"u", "t", "m", "_", "c", "a", "m", "p", "a", "i", "g", "n">>,
      <<"u", "t", "m", "_", "t", "e", "r", "m">>,
      <<"u", "t", "m", "_", "c", "o", "n", "t", "e", "n", "t">>,
      <<"r", "e", "f">>,
      <<"s", "o", "u", "r", "c", "e">>,
      <<"f", "b", "c", "l", "i", "d">>,
      <<"g", "c", "l", "i", "d">> }

\* the dict comprehension that drops tracking parameters
FilterParams(groups) == SelectSeq(groups, LAMBDA g : Lower(g[1]) \notin _strip_params)

\* urlsplit raises ValueError("Invalid IPv6 URL") for a netloc with one of
\* the brackets and not the other
InvalidNetloc(netloc) ==
    (\E i \in 1..Len(netloc) : netloc[i] = "[") # (\E i \in 1..Len(netloc) : netloc[i] = "]")

canonical_url(url) ==
    LET parsed == UrlParse(Strip(url))
        scheme == Lower(parsed.scheme)
        netloc == RStrip(Lower(parsed.netloc), ".")
        stripped == RStrip(parsed.path, "/")
        path == IF stripped = <<>> THEN <<"/">> ELSE stripped
        query == IF parsed.query # <<>>
                 THEN UrlEncode(FilterParams(ParseQs(parsed.query)))
                 ELSE <<>>
    IN  IF InvalidNetloc(parsed.netloc) THEN Lower(Strip(url))
        ELSE UrlUnparse(scheme, netloc, path, query, <<>>)

\* ------------------------------------------------------------------------
\* The URLs that connectors return in this model
\* ------------------------------------------------------------------------

T_www == <<"h", "t", "t", "p", "s", ":", "/", "/", "w", "w", "w", ".", "e", "x", "a", "m", "p", "l", "e", ".", "c", "o", "m", "/", "a", "/", "?", "u", "t", "m", "_", "s", "o", "u", "r", "c", "e", "=", "x">>
T_plain == <<"h", "t", "t", "p", "s", ":", "/", "/", "e", "x", "a", "m", "p", "l", "e", ".", "c", "o", "m", "/", "a">>
T_slash == <<"h", "t", "t", "p", "s", ":", "/", "/", "e", "x", "a", "m", "p", "l", "e", ".", "c", "o", "m", "/", "a", "/">>
T_b == <<"H", "T", "T", "P", "S", ":", "/", "/", "E", "x", "a", "m", "p", "l", "e", ".", "c", "o", "m", ".", "/", "b", "?", "i", "d", "=", "1", "&", "r", "e", "f", "=", "y", "#", "t", "o", "p">>

\* raw url values by short name; "none" is a raw item without a url
UrlText ==
    [u \in {"www", "plain", "slash", "b", "none"} |->
        CASE u = "www" -> T_www [] u = "plain" -> T_plain [] u = "slash" -> T_slash
          [] u = "b" -> T_b [] u = "none" -> <<>>]

Urls == DOMAIN UrlText

\* Item.canonicalize_url of every url of the model
CanonOf == [u \in Urls |-> canonical_url(UrlText[u])]

\* ------------------------------------------------------------------------
\* Processes and inputs
\* ------------------------------------------------------------------------

\* the sources of config.yaml; each has one _ingest_source task per ingest_all
Sources == {"S1", "S2"}

\* a task that uses the DatabaseManager directly, concurrently with ingestion
Clients == {"c1", "c2"}

\* the caller of ingest_all
Main == "main"

Procs == Sources \cup Clients \cup {Main}

None == "None"
NULL == "NULL"

\* what a connector's fetch can return: lists of raw items, given by their url
FeedPool ==
    { <<>>, <<"www">>, <<"plain">>, <<"plain", "slash">>, <<"none", "b">> }

\* str(e) of the exceptions a connector raises; "" is an exception without message
ErrorTexts == {"network failure", ""}

\* the message of the TimeoutError raised by _fetch_source
TimeoutText == "timed out"

\* ------------------------------------------------------------------------
\* State
\* ------------------------------------------------------------------------

VARIABLES
    sources,          \* table sources: id -> row, for the ids that have a row
    items,            \* table items: set of rows
    metrics,          \* table metrics: set of rows, at most one per item_id
    digests,          \* table digests: set of rows, at most one per section
    in_transaction,   \* sqlite3 Connection.in_transaction of the shared _conn
    rollback_image,   \* tables as of the BEGIN of the open transaction
    _write_lock,      \* owner of DatabaseManager._write_lock, or None
    run,              \* number of ingest_all calls started; also the clock "now"
    max_concurrent,   \* IngestOrchestrator.max_concurrent
    sem,              \* free permits of the semaphore of the current ingest_all
    pc,               \* position of every process
    raw,              \* _ingest_source: raw_items returned by the connector
    todo,             \* _deduplicate: items not yet looked at
    seen,             \* _deduplicate: seen
    unique,           \* _deduplicate: unique
    result,           \* _ingest_source: the IngestResult of the task
    error,            \* str(e) of the exception a process is handling, or None
    pending,          \* batch write: rows of the chunks not yet executed
    inserted,         \* batch write: the local counter inserted
    returned,         \* count returned to a process by its last batch write
    found,            \* client: the result of its last read
    summary,          \* ingest_all: the IngestSummary, None while none returned
    selected,         \* ingest_all: the sources being ingested
    to_sync,          \* ingest_all: sources still to be written by upsert_source
    digest_runs,      \* number of digest commands started
    digest_items,     \* digest command: ids of the items of the generated digest
    sections_left,    \* digest command: sections still to be saved
    ops_left,         \* client: store operations it may still issue
    faults_left,      \* failing statements still to be injected
    err_before,       \* error_count of each source when ingest_all was called
    status_written,   \* sources whose status this ingest_all has written
    prev_feed,        \* what each source's connector returned in its last ingest
    items_before,     \* table items when ingest_all was called
    db_objects,       \* migrations: the schema changes present in the database file
    version_rows,     \* migrations: versions in schema_version, as the connection sees them
    version_committed, \* migrations: versions in schema_version, as committed
    mig_pc,           \* apply_migrations: position
    current,          \* apply_migrations: current
    applied,          \* apply_migrations: applied
    mig_at,           \* apply_migrations: index of the migration the loop is at
    mig_stmt,         \* apply_migrations: index of the statement to run next
    mig_returns,      \* what the calls of apply_migrations returned, in order
    mig_before,       \* the database file when apply_migrations was called
    mig_faults_left,  \* failing statements still to be injected in migrations
    cl_items,         \* cluster_items: the list of ItemRecord it is called with
    cl_threshold,     \* DedupClusterer.similarity_threshold, in hundredths
    cl_pc,            \* cluster_items: position
    cl_groups,        \* cluster_items: url_clusters, as positions of the list
    cl_reps,          \* cluster_items: representatives, by number of the cluster id
    cl_parent,        \* cluster_items: parent of the union-find
    cl_at,            \* cluster_items: index of the representative being queried
    cl_cands,         \* cluster_items: candidates not yet compared with it
    cl_merged,        \* cluster_items: the returned dict, cluster id -> items
    cl_tags,          \* cluster_id and is_representative of every item of the list
    q_items,          \* apply_quotas: scored_items, by source_id and category
    q_config,         \* QuotaManager: scoring.quotas and digest.limits
    q_pc,             \* apply_quotas: position
    q_at,             \* apply_quotas: index of the next item of the loop
    q_source_counts,  \* apply_quotas: source_counts
    q_after_source,   \* apply_quotas: after_source, as positions in scored_items
    q_cat_counts,     \* apply_quotas: cat_counts
    q_result,         \* apply_quotas: result, as positions in scored_items
    sc_config,        \* Scorer: weights, source authority, popularity fields
    sc_batch_source_max,  \* Scorer._batch_source_max
    sc_calls,         \* the score_items and score_item calls and their results
    g_pc,             \* generate_digest: position
    g_items,          \* generate_digest: the items it is called with
    g_source_lang,    \* HardFilter._source_lang
    g_digest,         \* generate_digest: the Digest it returns
    sm_pc,            \* summarize: position
    sm_items,         \* summarize: the items it is called with
    sm_provider,      \* LLMSummarizer.provider
    sm_caching,       \* LLMSummarizer.cache_summaries
    sm_batch,         \* LLMSummarizer.concurrent_requests
    sm_cache,         \* LLMSummarizer._cache: cache key -> text
    sm_cache_before,  \* the cache when the summarize call at hand was made
    sm_to_summarize,  \* summarize: to_summarize, as positions of the items
    sm_results,       \* summarize: results, item id -> text
    sm_outcomes,      \* summarize: what the provider call of each position did
    sm_returns,       \* the last summarize call that returned, and what it returned
    f_kind,           \* the connector whose fetch is called: rss, api or scrape
    f_pc,             \* fetch: position
    f_seen,           \* fetch: what each attempt so far has met
    c_url,            \* canonical_url: the url it is called with
    c_pc,             \* canonical_url: position of the caller
    c_once,           \* canonical_url(url)
    c_twice,          \* canonical_url(canonical_url(url))
    call_pc,          \* a call of one function: position of the caller
    call_args,        \* the arguments of the call
    call_result       \* what the call returned

\* the store, the orchestrator and the direct clients
appVars == <<sources, items, metrics, digests, in_transaction, rollback_image,
             _write_lock, run, max_concurrent, sem, pc, raw, todo, seen, unique,
             result, error, pending, inserted, returned, found, summary,
             selected, to_sync, digest_runs, digest_items, sections_left, ops_left,
             faults_left, err_before, status_written, prev_feed, items_before>>

\* apply_migrations
migVars == <<db_objects, version_rows, version_committed, mig_pc, current, applied,
             mig_at, mig_stmt, mig_returns, mig_before, mig_faults_left>>

\* DedupClusterer.cluster_items
clVars == <<cl_items, cl_threshold, cl_pc, cl_groups, cl_reps, cl_parent, cl_at, cl_cands,
            cl_merged, cl_tags>>

\* QuotaManager.apply_quotas
quotaVars == <<q_items, q_config, q_pc, q_at, q_source_counts, q_after_source,
               q_cat_counts, q_result>>

\* Scorer
scoreVars == <<sc_config, sc_batch_source_max, sc_calls>>

\* DigestGenerator.generate_digest
genVars == <<g_pc, g_items, g_source_lang, g_digest>>

\* LLMSummarizer
sumVars == <<sm_pc, sm_items, sm_provider, sm_caching, sm_batch, sm_cache, sm_cache_before,
             sm_to_summarize, sm_results, sm_outcomes, sm_returns>>

\* the digest generator, the summarizer and the connectors
\* a connector's fetch
fetchVars == <<f_kind, f_pc, f_seen>>

\* canonical_url
canonVars == <<c_url, c_pc, c_once, c_twice>>

\* one call of a function that keeps no state
callVars == <<call_pc, call_args, call_result>>

\* what such a call leaves alone
nonCallVars == <<appVars, migVars, clVars, quotaVars, scoreVars, genVars, sumVars, fetchVars,
                 canonVars>>

extraVars == <<genVars, sumVars, fetchVars, canonVars, callVars>>

\* the denoise and digest pipeline
denoiseVars == <<clVars, quotaVars, scoreVars, extraVars>>

\* what cluster_items, apply_quotas and the Scorer leave alone
nonClVars == <<appVars, migVars, quotaVars, scoreVars, extraVars>>
nonQuotaVars == <<appVars, migVars, clVars, scoreVars, extraVars>>
nonScoreVars == <<appVars, migVars, clVars, quotaVars, extraVars>>

\* what the summarizer leaves alone
nonSumVars == <<appVars, migVars, clVars, quotaVars, scoreVars, genVars, fetchVars, canonVars, callVars>>

\* what a connector's fetch leaves alone
nonFetchVars == <<appVars, migVars, clVars, quotaVars, scoreVars, genVars, sumVars, canonVars, callVars>>

\* what canonical_url leaves alone
nonCanonVars == <<appVars, migVars, clVars, quotaVars, scoreVars, genVars, sumVars, fetchVars, callVars>>

\* what the store and the orchestrator leave alone
restVars == <<migVars, denoiseVars>>

\* what apply_migrations leaves alone
nonMigVars == <<appVars, denoiseVars>>

vars == <<appVars, restVars>>

storeVars == <<sources, items, metrics, digests>>
taskVars == <<raw, todo, seen, unique, result>>
batchVars == <<pending, inserted>>
clientVars == <<ops_left, found>>
digestVars == <<digest_runs, digest_items, sections_left>>
obsVars == <<err_before, status_written, prev_feed, items_before>>

\* ------------------------------------------------------------------------
\* Rows
\* ------------------------------------------------------------------------

\* Source.from_config(cfg).to_row(): a fresh status, enabled
\* a NULL timestamp, and None passed for a timestamp
NoTime == 0

ConfigSourceRow ==
    [last_fetch_at |-> NoTime, last_error |-> NULL, error_count |-> 0, enabled |-> TRUE]

\* Item.make_id(url, source_id): the hash of "source_id:url"
make_id(url, source_id) == <<source_id, url>>

\* the Item that _normalize_items builds from one raw item
NormalizedItem(url, source_id, now) ==
    [id |-> make_id(url, source_id), source_id |-> source_id, url |-> url,
     url_canonical |-> CanonOf[url], ingested_at |-> now, snapshot_path |-> NULL]

\* _normalize_items: raw items without url are skipped
RECURSIVE _normalize_items(_, _, _)
_normalize_items(raw_items, source_id, now) ==
    IF raw_items = <<>> THEN <<>>
    ELSE IF raw_items[1] = "none" THEN _normalize_items(Tail(raw_items), source_id, now)
    ELSE <<NormalizedItem(raw_items[1], source_id, now)>>
         \o _normalize_items(Tail(raw_items), source_id, now)

Tables == [sources |-> sources, items |-> items, metrics |-> metrics, digests |-> digests]

NoImage == "NoImage"

\* what is durably stored: the tables without the open transaction's changes
Committed == IF in_transaction THEN rollback_image ELSE Tables

\* ------------------------------------------------------------------------
\* The connection: transactions of the shared sqlite3 connection
\* ------------------------------------------------------------------------

\* sqlite3.OperationalError of a BEGIN inside an open transaction
NestedBeginText == "cannot start a transaction within a transaction"

\* a lock that never holds anyone back
NeverLocked(lock) == FALSE

\* asyncio.Lock.locked(): async with self._write_lock waits while it holds
Locked(lock) == lock # None

\* the implicit BEGIN that sqlite3 issues before a data-modifying statement,
\* and the explicit BEGIN IMMEDIATE of _transaction
OpenTransaction ==
    /\ in_transaction' = TRUE
    /\ rollback_image' = IF in_transaction THEN rollback_image ELSE Tables

\* Connection.commit()
CommitTransaction ==
    /\ in_transaction' = FALSE
    /\ rollback_image' = NoImage

\* Connection.rollback(): the tables return to their state at BEGIN
RollbackTransaction ==
    /\ sources' = Committed.sources
    /\ items' = Committed.items
    /\ metrics' = Committed.metrics
    /\ digests' = Committed.digests
    /\ in_transaction' = FALSE
    /\ rollback_image' = NoImage

\* ------------------------------------------------------------------------
\* Statements
\* ------------------------------------------------------------------------

\* the uniqueness constraints of table items: primary key id, UNIQUE url_canonical
Conflicts(tbl, row) ==
    \E r \in tbl : r.id = row.id \/ r.url_canonical = row.url_canonical

\* the foreign key items.source_id -> sources.id
ForeignKeyOk(srcs, row) ==
    row.source_id \in DOMAIN srcs

\* a plain INSERT INTO items: the row is added whatever the table holds
InsertPlain(tbl, row) ==
    tbl \cup {row}

\* INSERT OR REPLACE INTO items: the conflicting rows give way to the new row
InsertOrReplace(tbl, row) ==
    {r \in tbl : r.id # row.id /\ r.url_canonical # row.url_canonical} \cup {row}

\* INSERT OR IGNORE INTO items of one row: the table afterwards
InsertOrIgnore(tbl, row) ==
    IF Conflicts(tbl, row) THEN tbl ELSE tbl \cup {row}

RECURSIVE ExecuteManyItems(_, _, _, _)
\* conn.executemany(INSERT OR IGNORE INTO items ..., rows): the table, the
\* cursor's rowcount (the rows the statement changed) and whether a row that
\* was not ignored failed the foreign key
ExecuteManyItems(tbl, srcs, rows, count) ==
    IF rows = <<>> THEN [items |-> tbl, rowcount |-> count, failed |-> FALSE]
    ELSE LET after == InsertOrIgnore(tbl, rows[1])
         IN  IF after # tbl /\ ~ForeignKeyOk(srcs, rows[1])
             THEN [items |-> tbl, rowcount |-> count, failed |-> TRUE]
             ELSE ExecuteManyItems(after, srcs, Tail(rows),
                                   IF after # tbl THEN count + 1 ELSE count)

\* INSERT OR REPLACE INTO metrics of one row
InsertOrReplaceMetric(tbl, row) ==
    {r \in tbl : r.item_id # row.item_id} \cup {row}

RECURSIVE ExecuteManyMetrics(_, _, _)
ExecuteManyMetrics(tbl, rows, count) ==
    IF rows = <<>> THEN [metrics |-> tbl, rowcount |-> count]
    ELSE ExecuteManyMetrics(InsertOrReplaceMetric(tbl, rows[1]), Tail(rows), count + 1)

\* the UPDATE of update_source_status; last_error and last_fetch_at may be None
UpdateSourceRow(row, last_fetch_at, last_error, increment_errors) ==
    IF last_error # None /\ last_error # ""
    THEN IF increment_errors
         THEN [row EXCEPT !.last_error = last_error,
                          !.error_count = row.error_count + 1,
                          !.last_fetch_at = IF last_fetch_at = NoTime
                                            THEN row.last_fetch_at ELSE last_fetch_at]
         ELSE [row EXCEPT !.last_error = last_error,
                          !.last_fetch_at = last_fetch_at]
    ELSE [row EXCEPT !.last_fetch_at = last_fetch_at,
                     !.last_error = NULL,
                     !.error_count = 0]

\* UPDATE sources ... WHERE id = source_id: no row, no change
UpdateSources(srcs, source_id, last_fetch_at, last_error, increment_errors) ==
    IF source_id \notin DOMAIN srcs THEN srcs
    ELSE [srcs EXCEPT ![source_id] =
            UpdateSourceRow(srcs[source_id], last_fetch_at, last_error, increment_errors)]

\* INSERT INTO sources ... ON CONFLICT(id) DO UPDATE SET every column
UpsertSources(srcs, source_id, row) ==
    [s \in DOMAIN srcs \cup {source_id} |-> IF s = source_id THEN row ELSE srcs[s]]

\* INSERT INTO digests ... ON CONFLICT(date, section) DO UPDATE
UpsertDigests(tbl, section, content) ==
    IF \E d \in tbl : d.section = section
    THEN {IF d.section = section THEN [d EXCEPT !.content = content] ELSE d : d \in tbl}
    ELSE tbl \cup {[section |-> section, content |-> content,
                    id |-> Cardinality(tbl) + 1]}

\* a lookup that finds no url
NeverExists(url_canonical) == FALSE

\* url_canonical_exists: a read on the shared connection
url_canonical_exists(url_canonical) ==
    \E r \in items : r.url_canonical = url_canonical

\* ids of the sources whose row is disabled
get_disabled_source_ids ==
    {s \in DOMAIN sources : ~sources[s].enabled}

\* ------------------------------------------------------------------------
\* Initial state: a freshly migrated, empty database; nothing running
\* ------------------------------------------------------------------------

\* the order of the sources in config.yaml
SourceOrder == <<"S1", "S2">>

\* no count returned
NoCount == -1

\* the connector of the source has not returned a list in its last ingest
NoFeed == [ok |-> FALSE, feed |-> <<>>]

\* no summary returned by ingest_all (yet)
NoSummary ==
    [valid |-> FALSE, results |-> {}, total_fetched |-> 0, total_inserted |-> 0,
     total_duplicates |-> 0, total_errors |-> 0]

NoResult ==
    [fetched |-> 0, inserted |-> 0, duplicates |-> 0, errors |-> 0,
     error_message |-> None]

\* no apply_migrations call is running and none has been made; the database
\* file is fully migrated
MigIdle ==
    /\ db_objects = {"schema", "fetch_batch_id", "idx_items_batch"}
    /\ version_rows = {1, 2}
    /\ version_committed = {1, 2}
    /\ mig_pc = "idle"
    /\ current = 0
    /\ applied = 0
    /\ mig_at = 1
    /\ mig_stmt = 1
    /\ mig_returns = <<>>
    /\ mig_before = [objects |-> {}, versions |-> {}, faults |-> 0]
    /\ mig_faults_left = 0

\* cluster_items has not been called
ClIdle ==
    /\ cl_items = <<>>
    /\ cl_threshold = 0
    /\ cl_pc = "idle"
    /\ cl_groups = <<>>
    /\ cl_reps = <<>>
    /\ cl_parent = <<>>
    /\ cl_at = 0
    /\ cl_cands = {}
    /\ cl_merged = <<>>
    /\ cl_tags = <<>>

\* apply_quotas has not been called
QuotaIdle ==
    /\ q_items = <<>>
    /\ q_config = [quotas |-> <<>>, limits |-> <<>>]
    /\ q_pc = "idle"
    /\ q_at = 1
    /\ q_source_counts = <<>>
    /\ q_after_source = <<>>
    /\ q_cat_counts = <<>>
    /\ q_result = <<>>

\* no Scorer has been made
ScorerIdle ==
    /\ sc_config = << >>
    /\ sc_batch_source_max = << >>
    /\ sc_calls = << >>

\* generate_digest has not been called
GenIdle ==
    /\ g_pc = "idle"
    /\ g_items = <<>>
    /\ g_source_lang = <<>>
    /\ g_digest = <<>>

\* no LLMSummarizer has been made
SumIdle ==
    /\ sm_pc = "idle"
    /\ sm_items = <<>>
    /\ sm_provider = "mock"
    /\ sm_caching = FALSE
    /\ sm_batch = 1
    /\ sm_cache = <<>>
    /\ sm_cache_before = <<>>
    /\ sm_to_summarize = <<>>
    /\ sm_results = <<>>
    /\ sm_outcomes = <<>>
    /\ sm_returns = <<>>

\* the digest generator, the summarizer and the connectors are not in use
\* no connector is fetching
FetchIdle ==
    /\ f_kind = "rss"
    /\ f_pc = "idle"
    /\ f_seen = <<>>

\* canonical_url is not called on its own
CanonIdle ==
    /\ c_url = <<>>
    /\ c_pc = "idle"
    /\ c_once = <<>>
    /\ c_twice = <<>>

\* no function is called on its own
CallIdle ==
    /\ call_pc = "idle"
    /\ call_args = <<>>
    /\ call_result = <<>>

ExtraIdle == GenIdle /\ SumIdle /\ FetchIdle /\ CanonIdle /\ CallIdle

\* the denoise and digest pipeline is not in use
DenoiseIdle == ClIdle /\ QuotaIdle /\ ScorerIdle /\ ExtraIdle

\* nothing but the store and the orchestrator is in use
RestIdle == MigIdle /\ DenoiseIdle

InitCommon ==
    /\ metrics = {}
    /\ digests = {}
    /\ in_transaction = FALSE
    /\ rollback_image = NoImage
    /\ _write_lock = None
    /\ run = 0
    /\ max_concurrent \in 1..MaxPermits
    /\ sem = 0
    /\ pc = [p \in Procs |-> "idle"]
    /\ raw = [s \in Sources |-> <<>>]
    /\ todo = [s \in Sources |-> <<>>]
    /\ seen = [s \in Sources |-> {}]
    /\ unique = [s \in Sources |-> <<>>]
    /\ result = [s \in Sources |-> NoResult]
    /\ error = [p \in Procs |-> None]
    /\ pending = [p \in Procs |-> <<>>]
    /\ inserted = [p \in Procs |-> 0]
    /\ returned = [p \in Procs |-> NoCount]
    /\ found = [c \in Clients |-> FALSE]
    /\ summary = NoSummary
    /\ selected = {}
    /\ to_sync = {}
    /\ digest_runs = 0
    /\ digest_items = {}
    /\ sections_left = <<>>
    /\ ops_left = [c \in Clients |-> MaxClientOps]
    /\ err_before = [s \in Sources |-> 0]
    /\ status_written = [s \in Sources |-> FALSE]
    /\ prev_feed = [s \in Sources |-> NoFeed]
    /\ items_before = {}

\* the program starts on a freshly migrated, empty database
Init ==
    /\ InitCommon
    /\ RestIdle
    /\ sources = << >>
    /\ items = {}
    /\ faults_left = 0

\* contents of table items that earlier ingests have left: S1 has ingested
\* nothing, the www url, or the plain url
StoredItemsPool ==
    { {}, {NormalizedItem("www", "S1", 1)}, {NormalizedItem("plain", "S1", 1)} }

\* the databases direct clients start on: both sources configured
InitStoreCommon ==
    /\ InitCommon
    /\ RestIdle
    /\ sources = [s \in Sources |-> ConfigSourceRow]
    /\ items \in StoredItemsPool

InitStore == InitStoreCommon /\ faults_left = 0

InitFault == InitStoreCommon /\ faults_left = MaxFaults

\* ------------------------------------------------------------------------
\* Exceptions
\* ------------------------------------------------------------------------

\* the task stays in the semaphore
KeepPermit(value) == value

\* the end of the block of async with sem: the permit goes back
Release(value) == value + 1

\* _ingest_source without its try block: the exception leaves the task
RaiseUnhandled(p, text) ==
    /\ error' = [error EXCEPT ![p] = text]
    /\ result' = result
    /\ pc' = [pc EXCEPT ![p] = IF p \in Sources THEN "raised" ELSE "idle"]
    /\ sem' = IF p \in Sources THEN Release(sem) ELSE sem

\* an exception with message text reaches process p: in _ingest_source the
\* try block hands it to the except block, an exception of the except block
\* leaves the task (and the semaphore); elsewhere it reaches the caller
Raise(p, text) ==
    IF p \in Sources
    THEN IF error[p] = None
         THEN /\ error' = [error EXCEPT ![p] = text]
              /\ result' = [result EXCEPT ![p].error_message = text, ![p].errors = 1]
              /\ pc' = [pc EXCEPT ![p] = "ss_exec"]
              /\ sem' = sem
         ELSE /\ error' = error
              /\ result' = result
              /\ pc' = [pc EXCEPT ![p] = "raised"]
              /\ sem' = Release(sem)
    ELSE /\ error' = [error EXCEPT ![p] = text]
         /\ result' = result
         /\ pc' = [pc EXCEPT ![p] = "idle"]
         /\ sem' = sem

\* ------------------------------------------------------------------------
\* ingest_all
\* ------------------------------------------------------------------------

\* the source_ids arguments explored; Sources stands for None (all sources)
SelectionPool == {Sources, {"S1"}, {"S2"}}

\* IngestSummary(): what ingest_all returns when no source is left
EmptySummary ==
    [valid |-> TRUE, results |-> {}, total_fetched |-> 0, total_inserted |-> 0,
     total_duplicates |-> 0, total_errors |-> 0]

\* what the connector of s returned in the ingest_all that has just ended,
\* if it returned
LastFeed(s) ==
    IF error[s] = None /\ pc[s] = "done" THEN [ok |-> TRUE, feed |-> raw[s]] ELSE NoFeed

\* ingest_all up to the first upsert_source: filter the configured sources
BeginIngest(source_ids) ==
    /\ pc[Main] = "idle"
    /\ run < MaxRuns
    /\ run' = run + 1
    /\ LET chosen == source_ids \ get_disabled_source_ids
       IN  /\ selected' = chosen
           /\ to_sync' = chosen
           /\ IF chosen = {}
              THEN /\ summary' = EmptySummary
                   /\ pc' = [p \in Procs |-> IF p \in Sources THEN "idle" ELSE pc[p]]
              ELSE /\ summary' = NoSummary
                   /\ pc' = [p \in Procs |-> IF p = Main THEN "sync"
                                             ELSE IF p \in Sources THEN "idle" ELSE pc[p]]
    /\ raw' = [s \in Sources |-> <<>>]
    /\ todo' = [s \in Sources |-> <<>>]
    /\ seen' = [s \in Sources |-> {}]
    /\ unique' = [s \in Sources |-> <<>>]
    /\ result' = [s \in Sources |-> NoResult]
    /\ error' = [p \in Procs |-> IF p \in Clients THEN error[p] ELSE None]
    /\ pending' = [p \in Procs |-> IF p \in Sources THEN <<>> ELSE pending[p]]
    /\ inserted' = [p \in Procs |-> IF p \in Sources THEN 0 ELSE inserted[p]]
    /\ returned' = [p \in Procs |-> IF p \in Sources THEN NoCount ELSE returned[p]]
    /\ err_before' = [s \in Sources |-> IF s \notin DOMAIN sources THEN 0
                                        ELSE sources[s].error_count]
    /\ status_written' = [s \in Sources |-> FALSE]
    /\ UNCHANGED <<storeVars, in_transaction, rollback_image, _write_lock,
                   max_concurrent, sem, clientVars, digestVars, faults_left,
                   restVars>>

\* ingest_all is called
StartIngest(source_ids) ==
    /\ BeginIngest(source_ids)
    /\ UNCHANGED <<prev_feed, items_before>>

\* ingest_all is called; what the previous call fetched and the table it
\* finds are recorded
StartIngestRecorded(source_ids) ==
    /\ BeginIngest(source_ids)
    /\ prev_feed' = [s \in Sources |-> IF s \in selected THEN LastFeed(s) ELSE prev_feed[s]]
    /\ items_before' = items

\* the source the upsert loop of ingest_all is at
NextToSync ==
    SourceOrder[CHOOSE i \in 1..Len(SourceOrder) :
                    /\ SourceOrder[i] \in to_sync
                    /\ \A j \in 1..(i - 1) : SourceOrder[j] \notin to_sync]

\* upsert_source(source) for the next selected source: lock and statement
SyncExec ==
    /\ pc[Main] = "sync"
    /\ ~Locked(_write_lock)
    /\ _write_lock' = Main
    /\ OpenTransaction
    /\ sources' = UpsertSources(sources, NextToSync, ConfigSourceRow)
    /\ pc' = [pc EXCEPT ![Main] = "sync_commit"]
    /\ UNCHANGED <<items, metrics, digests, run, max_concurrent, sem, taskVars,
                   error, batchVars, returned, summary, selected, to_sync,
                   clientVars, digestVars, faults_left, obsVars,
                   restVars>>

\* position of source s among the selected sources, in configuration order
Rank(s, sel) ==
    Cardinality({i \in 1..Len(SourceOrder) :
                    /\ SourceOrder[i] \in sel
                    /\ \E j \in i..Len(SourceOrder) : SourceOrder[j] = s})

\* tasks that start without the semaphore
FirstStepUngated(s, sel, value) == "fetch"

\* gather starts the tasks in order, each runs to its first suspension: the
\* first value tasks enter the semaphore and call the connector, the others
\* wait for a permit
FirstStep(s, sel, value) == IF Rank(s, sel) <= value THEN "fetch" ELSE "wait_sem"

\* permits left once n tasks have started on a semaphore of value permits
Permits(value, n) == IF n >= value THEN 0 ELSE value - n

\* its commit; after the last source the tasks are created and gathered
SyncCommit ==
    /\ pc[Main] = "sync_commit"
    /\ CommitTransaction
    /\ _write_lock' = None
    /\ to_sync' = to_sync \ {NextToSync}
    /\ IF to_sync' = {}
       THEN /\ sem' = Permits(max_concurrent, Cardinality(selected))
            /\ pc' = [p \in Procs |-> IF p = Main THEN "gather"
                                      ELSE IF p \in selected
                                           THEN FirstStep(p, selected, max_concurrent)
                                      ELSE pc[p]]
       ELSE /\ sem' = sem
            /\ pc' = [pc EXCEPT ![Main] = "sync"]
    /\ UNCHANGED <<storeVars, run, max_concurrent, taskVars, error, batchVars,
                   returned, summary, selected, clientVars, digestVars, faults_left, obsVars,
                   restVars>>

RECURSIVE SumOver(_, _, _)
SumOver(order, set, f) ==
    IF order = <<>> THEN 0
    ELSE (IF order[1] \in set THEN f[order[1]] ELSE 0) + SumOver(Tail(order), set, f)

\* asyncio.gather has every result: add them up and return the summary
GatherDone ==
    /\ pc[Main] = "gather"
    /\ \A s \in selected : pc[s] \in {"done", "raised"}
    /\ LET ok == {s \in selected : pc[s] = "done"}
           failed == {s \in selected : pc[s] = "raised"}
       IN  summary' =
             [valid |-> TRUE,
              results |-> {[source_id |-> s, result |-> result[s]] : s \in ok},
              total_fetched |-> SumOver(SourceOrder, ok, [s \in Sources |-> result[s].fetched]),
              total_inserted |-> SumOver(SourceOrder, ok, [s \in Sources |-> result[s].inserted]),
              total_duplicates |-> SumOver(SourceOrder, ok, [s \in Sources |-> result[s].duplicates]),
              total_errors |-> SumOver(SourceOrder, ok, [s \in Sources |-> result[s].errors])
                               + Cardinality(failed)]
    /\ pc' = [pc EXCEPT ![Main] = "idle"]
    /\ UNCHANGED <<storeVars, in_transaction, rollback_image, _write_lock, run,
                   max_concurrent, sem, taskVars, error, batchVars, returned,
                   selected, to_sync, clientVars, digestVars, faults_left, obsVars,
                   restVars>>

\* ------------------------------------------------------------------------
\* _ingest_source: one task per selected source
\* ------------------------------------------------------------------------

\* async with sem: enter when a permit is free
AcquireSem(s) ==
    /\ pc[s] = "wait_sem"
    /\ sem > 0
    /\ sem' = sem - 1
    /\ pc' = [pc EXCEPT ![s] = "fetch"]
    /\ UNCHANGED <<storeVars, in_transaction, rollback_image, _write_lock, run,
                   max_concurrent, taskVars, error, batchVars, returned, summary,
                   selected, to_sync, clientVars, digestVars, faults_left, obsVars,
                   restVars>>

\* _ingest_source with the status update moved before the batch insert
SequelStatusFirst(at, rows) ==
    IF at = "dedup" THEN "ss_exec"
    ELSE IF at = "ss_commit" /\ rows # <<>> THEN "bi_begin"
    ELSE "done"

\* the order of the store writes of _ingest_source: after _deduplicate comes
\* batch_insert_items (which returns 0 at once for an empty list), after its
\* commit update_source_status, after that the task returns
Sequel(at, rows) ==
    IF at = "dedup" THEN (IF rows = <<>> THEN "ss_exec" ELSE "bi_begin")
    ELSE IF at = "bi_commit" THEN "ss_exec"
    ELSE "done"

\* _fetch_source returns feed; the items are normalized
FetchReturn(s, feed) ==
    /\ pc[s] = "fetch"
    /\ raw' = [raw EXCEPT ![s] = feed]
    /\ result' = [result EXCEPT ![s].fetched = Len(feed)]
    /\ LET its == _normalize_items(feed, s, run)
       IN  /\ todo' = [todo EXCEPT ![s] = its]
           /\ pc' = [pc EXCEPT ![s] = IF feed = <<>> THEN "ss_exec"
                                      ELSE IF its = <<>> THEN Sequel("dedup", <<>>)
                                      ELSE "dedup"]
    /\ UNCHANGED <<storeVars, in_transaction, rollback_image, _write_lock, run,
                   max_concurrent, sem, seen, unique, error, batchVars, returned,
                   summary, selected, to_sync, clientVars, digestVars, faults_left, obsVars,
                   restVars>>

\* the connector raises, or wait_for times out: the except block is entered
FetchRaise(s, text) ==
    /\ pc[s] = "fetch"
    /\ Raise(s, text)
    /\ UNCHANGED <<storeVars, in_transaction, rollback_image, _write_lock, run,
                   max_concurrent, raw, todo, seen, unique, batchVars, returned,
                   summary, selected, to_sync, clientVars, digestVars, faults_left, obsVars,
                   restVars>>

\* one iteration of the loop of _deduplicate
DedupStep(s) ==
    /\ pc[s] = "dedup"
    /\ todo[s] # <<>>
    /\ LET item == Head(todo[s])
           dup == item.url_canonical \in seen[s]
                  \/ url_canonical_exists(item.url_canonical)
           uniq == IF dup THEN unique[s] ELSE Append(unique[s], item)
       IN  /\ seen' = [seen EXCEPT ![s] = seen[s] \cup {item.url_canonical}]
           /\ unique' = [unique EXCEPT ![s] = uniq]
           /\ result' = [result EXCEPT ![s].duplicates =
                            IF dup THEN result[s].duplicates + 1
                            ELSE result[s].duplicates]
           /\ todo' = [todo EXCEPT ![s] = Tail(todo[s])]
           /\ IF Tail(todo[s]) = <<>>
              THEN /\ pc' = [pc EXCEPT ![s] = Sequel("dedup", uniq)]
                   /\ pending' = [pending EXCEPT ![s] = uniq]
              ELSE UNCHANGED <<pc, pending>>
    /\ UNCHANGED <<storeVars, in_transaction, rollback_image, _write_lock, run,
                   max_concurrent, sem, raw, error, inserted, returned, summary,
                   selected, to_sync, clientVars, digestVars, faults_left, obsVars,
                   restVars>>

\* update_source_status called by _ingest_source: lock and UPDATE; with the
\* arguments of the success path, or of the except block
StatusExec(s) ==
    /\ pc[s] = "ss_exec"
    /\ ~Locked(_write_lock)
    /\ _write_lock' = s
    /\ OpenTransaction
    /\ sources' = IF error[s] = None
                  THEN UpdateSources(sources, s, run, None, FALSE)
                  ELSE UpdateSources(sources, s, run, error[s], TRUE)
    /\ status_written' = [status_written EXCEPT ![s] = TRUE]
    /\ pc' = [pc EXCEPT ![s] = "ss_commit"]
    /\ UNCHANGED <<items, metrics, digests, run, max_concurrent, sem, taskVars,
                   error, batchVars, returned, summary, selected, to_sync,
                   clientVars, digestVars, faults_left, err_before, prev_feed,
                   items_before,
                   restVars>>

\* its commit; the task returns its result and leaves the semaphore
StatusCommit(s) ==
    /\ pc[s] = "ss_commit"
    /\ CommitTransaction
    /\ _write_lock' = None
    /\ sem' = Release(sem)
    /\ pc' = [pc EXCEPT ![s] = Sequel("ss_commit", pending[s])]
    /\ UNCHANGED <<storeVars, run, max_concurrent, taskVars, error, batchVars,
                   returned, summary, selected, to_sync, clientVars, digestVars, faults_left,
                   obsVars,
                   restVars>>

\* ------------------------------------------------------------------------
\* batch_insert_items, for the tasks and for direct clients
\* ------------------------------------------------------------------------

Writers == Sources \cup Clients

\* _transaction: take the write lock and BEGIN IMMEDIATE
BatchBegin(p) ==
    /\ pc[p] = "bi_begin"
    /\ ~Locked(_write_lock)
    /\ IF in_transaction
       THEN /\ Raise(p, NestedBeginText)
            /\ UNCHANGED <<_write_lock, in_transaction, rollback_image, inserted>>
       ELSE /\ _write_lock' = p
            /\ OpenTransaction
            /\ inserted' = [inserted EXCEPT ![p] = 0]
            /\ pc' = [pc EXCEPT ![p] = "bi_chunk"]
            /\ UNCHANGED <<error, result, sem>>
    /\ UNCHANGED <<storeVars, run, max_concurrent, raw, todo, seen, unique,
                   pending, returned, summary, selected, to_sync, clientVars,
                   digestVars, faults_left, obsVars,
                   restVars>>

\* inserted = cursor.rowcount: only the last chunk counts
LastRowcount(count, rowcount) == rowcount

\* inserted += cursor.rowcount
Accumulate(count, rowcount) == count + rowcount

\* items[i : i + batch_size]
Chunk(rows) == SubSeq(rows, 1, IF Len(rows) < BatchSize THEN Len(rows) ELSE BatchSize)
Rest(rows) == SubSeq(rows, BatchSize + 1, Len(rows))

\* one executemany of the loop; a failing row rolls the transaction back
BatchChunk(p) ==
    /\ pc[p] = "bi_chunk"
    /\ LET res == ExecuteManyItems(items, sources, Chunk(pending[p]), 0)
       IN  IF res.failed
           THEN /\ RollbackTransaction
                /\ _write_lock' = None
                /\ Raise(p, "FOREIGN KEY constraint failed")
                /\ UNCHANGED <<pending, inserted>>
           ELSE /\ items' = res.items
                /\ inserted' = [inserted EXCEPT ![p] = Accumulate(inserted[p], res.rowcount)]
                /\ pending' = [pending EXCEPT ![p] = Rest(pending[p])]
                /\ pc' = [pc EXCEPT ![p] = IF Rest(pending[p]) = <<>>
                                           THEN "bi_commit" ELSE "bi_chunk"]
                /\ UNCHANGED <<sources, metrics, digests, in_transaction,
                               rollback_image, _write_lock, error, result, sem>>
    /\ UNCHANGED <<run, max_concurrent, raw, todo, seen, unique, returned,
                   summary, selected, to_sync, clientVars, digestVars, faults_left, obsVars,
                   restVars>>

\* commit, release the lock, return inserted
BatchCommit(p) ==
    /\ pc[p] = "bi_commit"
    /\ CommitTransaction
    /\ _write_lock' = None
    /\ returned' = [returned EXCEPT ![p] = inserted[p]]
    /\ IF p \in Sources
       THEN /\ result' = [result EXCEPT ![p].inserted = inserted[p]]
            /\ pc' = [pc EXCEPT ![p] = Sequel("bi_commit", pending[p])]
       ELSE /\ result' = result
            /\ pc' = [pc EXCEPT ![p] = "idle"]
    /\ UNCHANGED <<storeVars, run, max_concurrent, sem, raw, todo, seen, unique,
                   error, batchVars, summary, selected, to_sync, clientVars,
                   digestVars, faults_left, obsVars,
                   restVars>>

\* ------------------------------------------------------------------------
\* Direct clients of the DatabaseManager
\* ------------------------------------------------------------------------

\* the item lists clients insert: a repeated item, items that collide on the
\* canonical url, more items than one chunk, an item of a source never stored
ClientBatchPool ==
    LET A == NormalizedItem("plain", "S1", 0)
        B == NormalizedItem("slash", "S2", 0)
        C == NormalizedItem("b", "S1", 0)
        D == NormalizedItem("www", "S0", 0)
    IN  { <<>>, <<A, A>>, <<A, B, C>>, <<C, A, D>> }

MetricsPool ==
    LET M1 == [item_id |-> make_id("plain", "S1"), score |-> 1]
        M2 == [item_id |-> make_id("b", "S1"), score |-> 1]
        M3 == [item_id |-> make_id("plain", "S1"), score |-> 2]
    IN  { <<M1, M2, M3>> }

\* the digest sections clients save, and their contents (sets of item ids)
Sections == {"news"}
Contents == { {}, {make_id("plain", "S1")} }

ClientReady(c) == pc[c] = "idle" /\ ops_left[c] > 0

\* the client has issued one more operation, which is not a read
Spend(c) ==
    /\ ops_left' = [ops_left EXCEPT ![c] = ops_left[c] - 1]
    /\ found' = found


\* batch_insert_items(rows) is called
ClientBatchInsert(c, rows) ==
    /\ ClientReady(c)
    /\ Spend(c)
    /\ error' = [error EXCEPT ![c] = None]
    /\ IF rows = <<>>
       THEN /\ returned' = [returned EXCEPT ![c] = 0]
            /\ UNCHANGED <<pc, pending>>
       ELSE /\ pending' = [pending EXCEPT ![c] = rows]
            /\ pc' = [pc EXCEPT ![c] = "bi_begin"]
            /\ returned' = [returned EXCEPT ![c] = NoCount]
    /\ UNCHANGED <<storeVars, in_transaction, rollback_image, _write_lock, run,
                   max_concurrent, sem, taskVars, inserted, summary, selected,
                   to_sync, digestVars, faults_left, obsVars,
                   restVars>>

\* upsert_metrics(rows) is called (the pool has no empty list)
ClientUpsertMetrics(c, rows) ==
    /\ ClientReady(c)
    /\ Spend(c)
    /\ error' = [error EXCEPT ![c] = None]
    /\ pending' = [pending EXCEPT ![c] = rows]
    /\ pc' = [pc EXCEPT ![c] = "um_begin"]
    /\ returned' = [returned EXCEPT ![c] = NoCount]
    /\ UNCHANGED <<storeVars, in_transaction, rollback_image, _write_lock, run,
                   max_concurrent, sem, taskVars, inserted, summary, selected,
                   to_sync, digestVars, faults_left, obsVars,
                   restVars>>

\* upsert_metrics: _transaction, the executemany loop, commit;
\* for clients and for the digest command
MetricsBegin(c) ==
    /\ pc[c] = "um_begin"
    /\ ~Locked(_write_lock)
    /\ IF in_transaction
       THEN /\ Raise(c, NestedBeginText)
            /\ UNCHANGED <<_write_lock, in_transaction, rollback_image, inserted>>
       ELSE /\ _write_lock' = c
            /\ OpenTransaction
            /\ inserted' = [inserted EXCEPT ![c] = 0]
            /\ pc' = [pc EXCEPT ![c] = "um_chunk"]
            /\ UNCHANGED <<error, result, sem>>
    /\ UNCHANGED <<storeVars, run, max_concurrent, raw, todo, seen, unique,
                   pending, returned, summary, selected, to_sync, clientVars,
                   digestVars, faults_left, obsVars,
                   restVars>>

MetricsChunk(c) ==
    /\ pc[c] = "um_chunk"
    /\ LET res == ExecuteManyMetrics(metrics, Chunk(pending[c]), 0)
       IN  /\ metrics' = res.metrics
           /\ inserted' = [inserted EXCEPT ![c] = Accumulate(inserted[c], res.rowcount)]
    /\ pending' = [pending EXCEPT ![c] = Rest(pending[c])]
    /\ pc' = [pc EXCEPT ![c] = IF Rest(pending[c]) = <<>> THEN "um_commit" ELSE "um_chunk"]
    /\ UNCHANGED <<sources, items, digests, in_transaction, rollback_image,
                   _write_lock, run, max_concurrent, sem, taskVars, error,
                   returned, summary, selected, to_sync, clientVars, digestVars, faults_left,
                   obsVars,
                   restVars>>

MetricsCommit(c) ==
    /\ pc[c] = "um_commit"
    /\ CommitTransaction
    /\ _write_lock' = None
    /\ returned' = [returned EXCEPT ![c] = inserted[c]]
    /\ pc' = [pc EXCEPT ![c] = IF c = Main THEN "sd_exec" ELSE "idle"]
    /\ UNCHANGED <<storeVars, run, max_concurrent, sem, taskVars, error,
                   batchVars, summary, selected, to_sync, clientVars, digestVars, faults_left,
                   obsVars,
                   restVars>>

\* the frame of a single-statement write of a client: lock taken, statement run
ClientStatement(c) ==
    /\ ClientReady(c)
    /\ Spend(c)
    /\ ~Locked(_write_lock)
    /\ _write_lock' = c
    /\ OpenTransaction
    /\ error' = [error EXCEPT ![c] = None]
    /\ pc' = [pc EXCEPT ![c] = "commit"]
    /\ UNCHANGED <<run, max_concurrent, sem, taskVars, batchVars, returned,
                   summary, selected, to_sync, digestVars, faults_left, obsVars,
                   restVars>>

\* upsert_source(Source(id, enabled=enabled))
ClientUpsertSource(c, s, enabled) ==
    /\ ClientStatement(c)
    /\ sources' = UpsertSources(sources, s, [ConfigSourceRow EXCEPT !.enabled = enabled])
    /\ UNCHANGED <<items, metrics, digests>>

\* update_source_status(s, last_fetch_at, last_error, increment_errors)
ClientUpdateStatus(c, s, last_fetch_at, last_error, increment_errors) ==
    /\ ClientStatement(c)
    /\ sources' = UpdateSources(sources, s, last_fetch_at, last_error, increment_errors)
    /\ UNCHANGED <<items, metrics, digests>>

\* save_digest(Digest(section, content))
ClientSaveDigest(c, section, content) ==
    /\ ClientStatement(c)
    /\ digests' = UpsertDigests(digests, section, content)
    /\ UNCHANGED <<sources, items, metrics>>

\* optimize_fts(): the statement changes no row of the modelled tables
ClientOptimizeFts(c) ==
    /\ ClientStatement(c)
    /\ UNCHANGED storeVars

\* the commit of a single-statement write and the release of the lock
ClientCommit(c) ==
    /\ pc[c] = "commit"
    /\ CommitTransaction
    /\ _write_lock' = None
    /\ pc' = [pc EXCEPT ![c] = "idle"]
    /\ UNCHANGED <<storeVars, run, max_concurrent, sem, taskVars, error,
                   batchVars, returned, summary, selected, to_sync, clientVars,
                   digestVars, faults_left, obsVars,
                   restVars>>

\* vacuum(): VACUUM under the lock, no commit; it fails inside a transaction
ClientVacuum(c) ==
    /\ ClientReady(c)
    /\ Spend(c)
    /\ ~Locked(_write_lock)
    /\ IF in_transaction
       THEN /\ error' = [error EXCEPT ![c] = "cannot VACUUM from within a transaction"]
            /\ UNCHANGED <<_write_lock, pc>>
       ELSE /\ _write_lock' = c
            /\ error' = [error EXCEPT ![c] = None]
            /\ pc' = [pc EXCEPT ![c] = "vacuum"]
    /\ UNCHANGED <<storeVars, in_transaction, rollback_image, run,
                   max_concurrent, sem, taskVars, batchVars, returned, summary,
                   selected, to_sync, digestVars, faults_left, obsVars,
                   restVars>>

ClientVacuumDone(c) ==
    /\ pc[c] = "vacuum"
    /\ _write_lock' = None
    /\ pc' = [pc EXCEPT ![c] = "idle"]
    /\ UNCHANGED <<storeVars, in_transaction, rollback_image, run,
                   max_concurrent, sem, taskVars, error, batchVars, returned,
                   summary, selected, to_sync, clientVars, digestVars, faults_left, obsVars,
                   restVars>>

\* a read, here url_canonical_exists(canonical url of u): no lock is taken
ClientRead(c, u) ==
    /\ ClientReady(c)
    /\ ops_left' = [ops_left EXCEPT ![c] = ops_left[c] - 1]
    /\ found' = [found EXCEPT ![c] = url_canonical_exists(CanonOf[u])]
    /\ UNCHANGED <<storeVars, in_transaction, rollback_image, _write_lock, run,
                   max_concurrent, sem, pc, taskVars, error, batchVars, returned,
                   summary, selected, to_sync, digestVars, faults_left, obsVars,
                   restVars>>

\* ------------------------------------------------------------------------
\* The digest command
\* ------------------------------------------------------------------------

\* the category of config.yaml for each source
CategoryOf == [s \in Sources |-> IF s = "S1" THEN "news" ELSE "tips"]

\* the sections the digest command saves, in order
DigestSections == <<"news", "tips", "paper">>

RECURSIVE SeqOf(_)
\* a list holding the elements of a set
SeqOf(set) ==
    IF set = {} THEN <<>>
    ELSE LET x == CHOOSE x \in set : TRUE IN <<x>> \o SeqOf(set \ {x})

\* digest: the items of the date are loaded, the digest is generated, and
\* upsert_metrics is called with one Metric per item of the digest
DigestStart(chosen) ==
    /\ pc[Main] = "idle"
    /\ digest_runs < MaxDigests
    /\ items # {}
    /\ chosen \subseteq {r.id : r \in items}
    /\ digest_runs' = digest_runs + 1
    /\ digest_items' = chosen
    /\ sections_left' = DigestSections
    /\ pending' = [pending EXCEPT ![Main] =
                      SeqOf({[item_id |-> i, score |-> digest_runs + 1] : i \in chosen})]
    /\ pc' = [pc EXCEPT ![Main] = IF chosen = {} THEN "sd_exec" ELSE "um_begin"]
    /\ error' = [error EXCEPT ![Main] = None]
    /\ UNCHANGED <<storeVars, in_transaction, rollback_image, _write_lock, run,
                   max_concurrent, sem, taskVars, inserted, returned, summary,
                   selected, to_sync, clientVars, faults_left, obsVars,
                   restVars>>

\* the items of the digest that are in a section
SectionContent(section) ==
    {i \in digest_items : \E r \in items : r.id = i /\ CategoryOf[r.source_id] = section}

\* save_digest of the next section: lock and statement
DigestSaveExec ==
    /\ pc[Main] = "sd_exec"
    /\ ~Locked(_write_lock)
    /\ _write_lock' = Main
    /\ OpenTransaction
    /\ digests' = UpsertDigests(digests, Head(sections_left),
                                SectionContent(Head(sections_left)))
    /\ pc' = [pc EXCEPT ![Main] = "sd_commit"]
    /\ UNCHANGED <<sources, items, metrics, run, max_concurrent, sem, taskVars,
                   error, batchVars, returned, summary, selected, to_sync,
                   clientVars, digestVars, faults_left, obsVars,
                   restVars>>

\* its commit; after the last section the command ends
DigestSaveCommit ==
    /\ pc[Main] = "sd_commit"
    /\ CommitTransaction
    /\ _write_lock' = None
    /\ sections_left' = Tail(sections_left)
    /\ pc' = [pc EXCEPT ![Main] = IF Tail(sections_left) = <<>> THEN "idle" ELSE "sd_exec"]
    /\ UNCHANGED <<storeVars, run, max_concurrent, sem, taskVars, error,
                   batchVars, returned, summary, selected, to_sync, clientVars,
                   digest_runs, digest_items, faults_left, obsVars,
                   restVars>>

\* ------------------------------------------------------------------------
\* Failing statements (fault specification)
\* ------------------------------------------------------------------------

FaultText == "statement failed"

\* upsert_source, update_source_status or save_digest of a client whose
\* statement fails: the implicit BEGIN has been issued, the with block
\* releases the lock, nothing rolls back, the exception reaches the caller
ClientFailedStatement(c) ==
    /\ ClientReady(c)
    /\ Spend(c)
    /\ faults_left > 0
    /\ faults_left' = faults_left - 1
    /\ ~Locked(_write_lock)
    /\ OpenTransaction
    /\ Raise(c, FaultText)
    /\ UNCHANGED <<storeVars, _write_lock, run, max_concurrent, raw, todo, seen,
                   unique, batchVars, returned, summary, selected, to_sync,
                   digestVars, obsVars,
                   restVars>>

\* an executemany of batch_insert_items fails: _transaction rolls back
ClientFailedChunk(c) ==
    /\ pc[c] = "bi_chunk"
    /\ faults_left > 0
    /\ faults_left' = faults_left - 1
    /\ RollbackTransaction
    /\ _write_lock' = None
    /\ Raise(c, FaultText)
    /\ UNCHANGED <<run, max_concurrent, raw, todo, seen, unique, batchVars,
                   returned, summary, selected, to_sync, clientVars, digestVars,
                   obsVars,
                   restVars>>

\* an executemany of the upsert_metrics of the digest command fails:
\* _transaction rolls back and the exception ends the command
DigestMetricsFail ==
    /\ pc[Main] = "um_chunk"
    /\ faults_left > 0
    /\ faults_left' = faults_left - 1
    /\ RollbackTransaction
    /\ _write_lock' = None
    /\ Raise(Main, FaultText)
    /\ UNCHANGED <<run, max_concurrent, raw, todo, seen, unique, batchVars,
                   returned, summary, selected, to_sync, clientVars, digestVars,
                   obsVars,
                   restVars>>

\* the statement of a save_digest of the digest command fails: the with
\* block releases the lock, the exception ends the command, and db.close()
\* of the finally block drops what is not committed
DigestSaveFails ==
    /\ pc[Main] = "sd_exec"
    /\ faults_left > 0
    /\ faults_left' = faults_left - 1
    /\ ~Locked(_write_lock)
    /\ Raise(Main, FaultText)
    /\ UNCHANGED <<storeVars, in_transaction, rollback_image, _write_lock, run,
                   max_concurrent, raw, todo, seen, unique, batchVars,
                   returned, summary, selected, to_sync, clientVars, digestVars,
                   obsVars,
                   restVars>>

\* the commit of a save_digest of the digest command fails: the row of the
\* section is not committed when db.close() closes the connection
DigestCommitFails ==
    /\ pc[Main] = "sd_commit"
    /\ faults_left > 0
    /\ faults_left' = faults_left - 1
    /\ RollbackTransaction
    /\ _write_lock' = None
    /\ Raise(Main, FaultText)
    /\ UNCHANGED <<run, max_concurrent, raw, todo, seen, unique, batchVars,
                   returned, summary, selected, to_sync, clientVars, digestVars,
                   obsVars,
                   restVars>>

\* ------------------------------------------------------------------------
\* Migrations (backend/storage/migrations.py)
\* ------------------------------------------------------------------------

\* _get_migrations(): version and statements of each migration, in order;
\* the statements are named by the schema change they make
Migrations ==
    << [version |-> 1, statements |-> <<"schema">>],
       [version |-> 2, statements |-> <<"fetch_batch_id", "idx_items_batch">>] >>

\* MAX(version) over a set of versions, 0 for none
MaxOf(set) ==
    IF set = {} THEN 0
    ELSE LET x == CHOOSE x \in set : \A y \in set : y <= x IN x

\* get_current_version: MAX(version) of schema_version, 0 when the table has
\* no row or does not exist (it is created by schema.sql)
get_current_version(objects, rows) ==
    IF "schema" \notin objects THEN 0 ELSE MaxOf(rows)

\* a statement that fails when run on a database with these objects:
\* ALTER TABLE items ADD COLUMN on a table that is missing or has the column;
\* the others are CREATE ... IF NOT EXISTS
ScriptFails(objects, sql) ==
    \/ sql = "fetch_batch_id" /\ ("schema" \notin objects \/ "fetch_batch_id" \in objects)
    \/ sql = "idx_items_batch" /\ "fetch_batch_id" \notin objects

\* conn.rollback(): the rows of schema_version return to what is committed
MigRollback(rows, committed) == committed

\* the result of a call, as recorded: returned a version, or raised
MigResult(ok, version, count) == [ok |-> ok, version |-> version, applied |-> count]

\* the database file as apply_migrations leaves or finds it, with the
\* failures still to come
DbFile ==
    [objects |-> db_objects, versions |-> version_committed, faults |-> mig_faults_left]

\* a migration of every version
AlwaysPending(version, cur) == TRUE

\* the loop of apply_migrations continues past the versions <= current
Pending(version, cur) == ~(version <= cur)

\* apply_migrations(db_path) is called: a new connection, which sees what is
\* committed, reads the current version
MigrateCall ==
    /\ mig_pc = "idle"
    /\ Len(mig_returns) < MaxMigrateRuns
    /\ version_rows' = version_committed
    /\ current' = get_current_version(db_objects, version_committed)
    /\ applied' = 0
    /\ mig_at' = 1
    /\ mig_stmt' = 1
    /\ mig_before' = DbFile
    /\ mig_pc' = "loop"
    /\ UNCHANGED <<nonMigVars, db_objects, version_committed, mig_returns,
                   mig_faults_left>>

\* the head of the loop: a migration not above current is skipped, another
\* one is started; after the last one the final version is read and returned
MigrateLoop ==
    /\ mig_pc = "loop"
    /\ IF mig_at > Len(Migrations)
       THEN /\ mig_returns' = Append(mig_returns,
                   MigResult(TRUE, get_current_version(db_objects, version_rows), applied))
            /\ mig_pc' = "idle"
            /\ UNCHANGED <<mig_at, mig_stmt>>
       ELSE IF ~Pending(Migrations[mig_at].version, current)
       THEN /\ mig_at' = mig_at + 1
            /\ UNCHANGED <<mig_pc, mig_stmt, mig_returns>>
       ELSE /\ mig_pc' = "script"
            /\ mig_stmt' = 1
            /\ UNCHANGED <<mig_at, mig_returns>>
    /\ UNCHANGED <<nonMigVars, db_objects, version_rows, version_committed, current,
                   applied, mig_before, mig_faults_left>>

\* the except block: rollback, and the exception leaves apply_migrations
MigrateRaise ==
    /\ version_rows' = MigRollback(version_rows, version_committed)
    /\ mig_returns' = Append(mig_returns, MigResult(FALSE, 0, applied))
    /\ mig_pc' = "idle"

\* conn.executescript(sql) of the next statement: it runs in autocommit
\* mode, its change is in the file at once
MigrateScript ==
    /\ mig_pc = "script"
    /\ LET sql == Migrations[mig_at].statements[mig_stmt]
       IN  IF ScriptFails(db_objects, sql)
           THEN /\ MigrateRaise
                /\ UNCHANGED <<db_objects, mig_stmt>>
           ELSE /\ db_objects' = db_objects \cup {sql}
                /\ IF mig_stmt = Len(Migrations[mig_at].statements)
                   THEN mig_pc' = "record" /\ mig_stmt' = mig_stmt
                   ELSE mig_pc' = mig_pc /\ mig_stmt' = mig_stmt + 1
                /\ UNCHANGED <<version_rows, mig_returns>>
    /\ UNCHANGED <<nonMigVars, version_committed, current, applied, mig_at,
                   mig_before, mig_faults_left>>

\* INSERT INTO schema_version (version, description)
MigrateRecord ==
    /\ mig_pc = "record"
    /\ IF "schema" \notin db_objects \/ Migrations[mig_at].version \in version_rows
       THEN /\ MigrateRaise
       ELSE /\ version_rows' = version_rows \cup {Migrations[mig_at].version}
            /\ mig_pc' = "commit"
            /\ UNCHANGED mig_returns
    /\ UNCHANGED <<nonMigVars, db_objects, version_committed, current, applied,
                   mig_at, mig_stmt, mig_before, mig_faults_left>>

\* conn.commit(); applied += 1
MigrateCommit ==
    /\ mig_pc = "commit"
    /\ version_committed' = version_rows
    /\ applied' = applied + 1
    /\ mig_at' = mig_at + 1
    /\ mig_pc' = "loop"
    /\ UNCHANGED <<nonMigVars, db_objects, version_rows, current, mig_stmt,
                   mig_returns, mig_before, mig_faults_left>>

\* a statement of a migration fails for a reason outside the schema (disk
\* full, database locked, interrupt): executescript, the INSERT or the commit
MigrateStatementFails ==
    /\ mig_pc \in {"script", "record", "commit"}
    /\ mig_faults_left > 0
    /\ mig_faults_left' = mig_faults_left - 1
    /\ MigrateRaise
    /\ UNCHANGED <<nonMigVars, db_objects, version_committed, current, applied,
                   mig_at, mig_stmt, mig_before>>

\* the database files apply_migrations is run on: a new file, or the file of
\* a deployment that has the first migration only
MigrateFilePool ==
    { [objects |-> {}, versions |-> {}],
      [objects |-> {"schema"}, versions |-> {1}] }

\* the store and the orchestrator are not in use
AppIdle ==
    /\ InitCommon
    /\ max_concurrent = 1
    /\ sources = << >>
    /\ items = {}
    /\ faults_left = 0

\* apply_migrations is about to be called on a database file
InitMigrate ==
    /\ AppIdle
    /\ DenoiseIdle
    /\ \E f \in MigrateFilePool :
          /\ db_objects = f.objects
          /\ version_rows = f.versions
          /\ version_committed = f.versions
    /\ mig_pc = "idle"
    /\ current = 0
    /\ applied = 0
    /\ mig_at = 1
    /\ mig_stmt = 1
    /\ mig_returns = <<>>
    /\ mig_before = [objects |-> {}, versions |-> {}, faults |-> 0]
    /\ mig_faults_left \in 0..MaxMigrateFaults

NextMigrate ==
    \/ MigrateCall
    \/ MigrateLoop
    \/ MigrateScript
    \/ MigrateRecord
    \/ MigrateCommit
    \/ MigrateStatementFails


\* ------------------------------------------------------------------------
\* DedupClusterer (backend/denoise/dedup.py)
\* ------------------------------------------------------------------------

\* hash() of a str: some fixed function of its characters, kept to the
\* width of _MAX_HASH
RECURSIVE StrHash(_)
StrHash(s) ==
    IF s = <<>> THEN 0
    ELSE LET code == CASE s[Len(s)] = "a" -> 1 [] s[Len(s)] = "b" -> 2 [] OTHER -> 0
         IN  (code + 3 * StrHash(SubSeq(s, 1, Len(s) - 1))) % (MaxHash + 1)

RECURSIVE CollapseWs(_)
\* re.sub(r"\s+", " ", text)
CollapseWs(s) ==
    IF Len(s) < 2 THEN s
    ELSE IF s[1] = " " /\ s[2] = " " THEN CollapseWs(Tail(s))
    ELSE <<s[1]>> \o CollapseWs(Tail(s))

\* _normalize_text: collapse whitespace, strip, lower (the texts of the model
\* are NFKC-normal)
_normalize_text(text) == Lower(Strip(CollapseWs(text)))

\* _shingle(text, k): the hashes of the k-character substrings
_shingle(text, k) ==
    LET t == CollapseWs(Strip(Lower(text)))
    IN  IF Len(t) < k THEN {StrHash(t)}
        ELSE {StrHash(SubSeq(t, i, i + k - 1)) : i \in 1..(Len(t) - k + 1)}

\* _generate_hash_funcs: the pairs (a, b) with 1 <= a < p and 0 <= b < p
_HASH_FUNCS ==
    [i \in 1..NumPerm |-> [a |-> 1 + ((3 * i) % (LargePrime - 1)), b |-> (5 * i) % LargePrime]]

\* the least element of a non-empty set of numbers
MinOf(set) == CHOOSE x \in set : \A y \in set : x <= y

\* compute_minhash(text): per hash function the least hash of a shingle
compute_minhash(text) ==
    [i \in 1..NumPerm |->
        MinOf({MaxHash} \cup
              {((_HASH_FUNCS[i].a * sh + _HASH_FUNCS[i].b) % LargePrime) % (MaxHash + 1) :
                  sh \in _shingle(text, ShingleSize)})]

\* every pair of signatures passes the threshold
AlwaysSimilar(a, b, threshold) == TRUE

\* minhash_similarity(a, b) >= threshold: matches / num_perm, threshold in
\* hundredths
Similar(a, b, threshold) ==
    Cardinality({i \in 1..NumPerm : a[i] = b[i]}) * 100 >= threshold * NumPerm

\* LSHIndex: the rows of a band of a signature, sig.values[start:end]
Band(sig, band_idx) ==
    SubSeq(sig, band_idx * RowsPerBand + 1,
           IF (band_idx + 1) * RowsPerBand < Len(sig)
           THEN (band_idx + 1) * RowsPerBand ELSE Len(sig))

\* the item that comes first represents the group
PickFirst(list, group) == group[1]

RECURSIVE _pick_best(_, _)
\* _pick_best(group): max by (len(content), -hash(published_at)); of equal
\* keys max() returns the first. group is a sequence of positions in list
_pick_best(list, group) ==
    IF Len(group) = 1 THEN group[1]
    ELSE LET best == _pick_best(list, SubSeq(group, 1, Len(group) - 1))
             last == group[Len(group)]
             more == \/ Len(list[last].content) > Len(list[best].content)
                     \/ /\ Len(list[last].content) = Len(list[best].content)
                        /\ -list[last].published_hash > -list[best].published_hash
         IN  IF more THEN last ELSE best

\* the positions 1..Len(keys) grouped by key: the groups in the order in
\* which their key comes first, the positions of a group in their order
GroupBy(keys) ==
    LET positions == [i \in 1..Len(keys) |-> i]
        IsFirst(i) == \A j \in 1..(i - 1) : keys[j] # keys[i]
        firsts == SelectSeq(positions, IsFirst)
    IN  [k \in 1..Len(firsts) |->
            LET Same(i) == keys[i] = keys[firsts[k]]
            IN  SelectSeq(positions, Same)]

\* phase 1: url_clusters in the order of the dict, each the positions of the
\* items of one canonical url in the order of the list
UrlClusters(list) == GroupBy([i \in 1..Len(list) |-> CanonOf[list[i].url]])

\* the text of which the signature of a representative is made
SignedText(item) ==
    _normalize_text(item.title \o <<" ">>
                    \o Prefix(item.content,
                              IF Len(item.content) < ContentCut
                              THEN Len(item.content) ELSE ContentCut))

\* representatives: per cluster id c000000, c000001, ..., given by its
\* number, the representative of the url cluster and its signature
Representatives(list, groups) ==
    [cid \in 0..(Len(groups) - 1) |->
        [rep |-> _pick_best(list, groups[cid + 1]),
         sig |-> compute_minhash(SignedText(list[_pick_best(list, groups[cid + 1])]))]]

\* lsh.query_candidates(sig) after every representative was inserted
query_candidates(reps, sig) ==
    {cid \in DOMAIN reps :
        \E band_idx \in 0..(NumBands - 1) : Band(reps[cid].sig, band_idx) = Band(sig, band_idx)}

RECURSIVE find(_, _)
\* find(x): the root of x (the path halving changes no root)
find(parent, x) == IF parent[x] = x THEN x ELSE find(parent, parent[x])

RECURSIVE Extend(_, _)
\* the lists of a sequence of lists, one after the other
Extend(lists, keep) ==
    IF lists = <<>> THEN <<>>
    ELSE (IF keep[1] THEN lists[1] ELSE <<>>) \o Extend(Tail(lists), Tail(keep))

\* cluster_id of an item that was never clustered
NoCluster == -1

\* every item as long as the representative is tagged
LongestContent(item, best) == Len(item.content) = Len(best.content)

\* is_representative of an item of a cluster: item.id == rep.id
IsRepresentative(item, best) == item.id = best.id

\* union(a, b) of two nodes with different roots
Union(parent, a, b) == [parent EXCEPT ![find(parent, a)] = find(parent, b)]

\* the ItemRecord rows cluster_items is called with
ItemPool ==
    { [id |-> 1, url |-> "plain", title |-> <<"A">>, content |-> <<"a", "a", "a">>, published_hash |-> 0],
      [id |-> 2, url |-> "slash", title |-> <<"A">>, content |-> <<"a", "a", "a", "b">>, published_hash |-> 1],
      [id |-> 3, url |-> "b", title |-> <<"A">>, content |-> <<"a", "a", "a">>, published_hash |-> 0],
      [id |-> 4, url |-> "www", title |-> <<>>, content |-> <<"b", "b", "a", "b", "b">>, published_hash |-> 1],
      [id |-> 5, url |-> "b", title |-> <<"A">>, content |-> <<"a", "b", " ", " ", "a">>, published_hash |-> 1],
      [id |-> 6, url |-> "www", title |-> <<"A">>, content |-> <<"a", "a", "b">>, published_hash |-> 0] }

\* lists of rows of the items table: the ids are distinct (primary key)
ItemLists ==
    {list \in UNION {[1..n -> ItemPool] : n \in 0..MaxItems} :
        \A i, j \in 1..Len(list) : list[i].id = list[j].id => i = j}

\* cluster_items(items) up to the LSH loop: an empty list returns {}
ClusterCall ==
    /\ cl_pc = "called"
    /\ IF cl_items = <<>>
       THEN /\ cl_pc' = "done"
            /\ UNCHANGED <<cl_groups, cl_reps, cl_parent, cl_at, cl_cands>>
       ELSE /\ cl_groups' = UrlClusters(cl_items)
            /\ cl_reps' = Representatives(cl_items, cl_groups')
            /\ cl_parent' = [cid \in DOMAIN cl_reps' |-> cid]
            /\ cl_at' = 0
            /\ cl_cands' = query_candidates(cl_reps', cl_reps'[0].sig)
            /\ cl_pc' = "lsh"
    /\ UNCHANGED <<nonClVars, cl_items, cl_threshold, cl_merged, cl_tags>>

\* one candidate of the representative at hand, in the order of the set
ClusterCompare(other_cid) ==
    /\ cl_pc = "lsh"
    /\ other_cid \in cl_cands
    /\ cl_cands' = cl_cands \ {other_cid}
    /\ IF /\ other_cid # cl_at
          /\ find(cl_parent, cl_at) # find(cl_parent, other_cid)
          /\ Similar(cl_reps[cl_at].sig, cl_reps[other_cid].sig, cl_threshold)
       THEN cl_parent' = Union(cl_parent, cl_at, other_cid)
       ELSE cl_parent' = cl_parent
    /\ UNCHANGED <<nonClVars, cl_items, cl_threshold, cl_pc, cl_groups, cl_reps, cl_at,
                   cl_merged, cl_tags>>

\* the candidates of a representative are done: the next one, or the merge
ClusterNextRepresentative ==
    /\ cl_pc = "lsh"
    /\ cl_cands = {}
    /\ IF cl_at + 1 \in DOMAIN cl_reps
       THEN /\ cl_at' = cl_at + 1
            /\ cl_cands' = query_candidates(cl_reps, cl_reps[cl_at + 1].sig)
            /\ cl_pc' = cl_pc
       ELSE /\ cl_pc' = "tag"
            /\ UNCHANGED <<cl_at, cl_cands>>
    /\ UNCHANGED <<nonClVars, cl_items, cl_threshold, cl_groups, cl_reps, cl_parent,
                   cl_merged, cl_tags>>

\* merge the url clusters by root, tag every item, return dict(merged)
ClusterTag ==
    /\ cl_pc = "tag"
    /\ cl_merged' =
           [root \in {find(cl_parent, cid) : cid \in DOMAIN cl_reps} |->
               Extend(cl_groups,
                      [k \in 1..Len(cl_groups) |-> find(cl_parent, k - 1) = root])]
    /\ cl_tags' =
           [i \in 1..Len(cl_items) |->
               LET cid == CHOOSE cid \in DOMAIN cl_merged' :
                              \E j \in 1..Len(cl_merged'[cid]) : cl_merged'[cid][j] = i
               IN  [cluster_id |-> cid,
                    is_representative |->
                        IsRepresentative(cl_items[i],
                                         cl_items[_pick_best(cl_items, cl_merged'[cid])])]]
    /\ cl_pc' = "done"
    /\ UNCHANGED <<nonClVars, cl_items, cl_threshold, cl_groups, cl_reps, cl_parent,
                   cl_at, cl_cands>>

\* performance.similarity_threshold of the config, in hundredths: the
\* default 0.85 and a lower one
ThresholdPool == {85, 50}

\* cluster_items is called with a list of items and a configured threshold
InitCluster ==
    /\ AppIdle
    /\ MigIdle
    /\ QuotaIdle
    /\ ScorerIdle
    /\ ExtraIdle
    /\ cl_items \in ItemLists
    /\ cl_threshold \in ThresholdPool
    /\ cl_pc = "called"
    /\ cl_groups = <<>>
    /\ cl_reps = <<>>
    /\ cl_parent = <<>>
    /\ cl_at = 0
    /\ cl_cands = {}
    /\ cl_merged = <<>>
    /\ cl_tags = [i \in 1..Len(cl_items) |->
                     [cluster_id |-> NoCluster, is_representative |-> FALSE]]

NextCluster ==
    \/ ClusterCall
    \/ \E other_cid \in cl_cands : ClusterCompare(other_cid)
    \/ ClusterNextRepresentative
    \/ ClusterTag

\* ------------------------------------------------------------------------
\* QuotaManager (backend/denoise/quota.py)
\* ------------------------------------------------------------------------

\* source_id and category of the scored items
QuotaSources == {"A", "B", "C"}
Categories == {"news", "tips"}

\* scoring.quotas and digest.limits of the configs
QuotaConfigs ==
    { [quotas |-> [k \in {"A", "B", "default"} |->
                      CASE k = "A" -> 2 [] k = "B" -> 10 [] k = "default" -> 5],
       limits |-> [k \in {"news"} |-> 3]],
      [quotas |-> [k \in {"A"} |-> 1],
       limits |-> [k \in {"news", "tips"} |-> IF k = "news" THEN 2 ELSE 1]],
      [quotas |-> [k \in {"B", "default"} |-> IF k = "B" THEN 0 ELSE 1],
       limits |-> [k \in {"tips"} |-> 2]] }

\* five news items of A, then five news items of B
FiveAndFive ==
    [i \in 1..10 |-> [source_id |-> IF i <= 5 THEN "A" ELSE "B", category |-> "news"]]

\* the lists apply_quotas is called with, in the order of their scores
ScoredLists ==
    {FiveAndFive} \cup
    UNION {[1..n -> [source_id : QuotaSources, category : Categories]] : n \in 0..MaxScored}

\* QuotaManager.__init__ and the lookup of line 41: the quota of a source,
\* "default" taken out of the quotas
SourceQuota(config, source_id) ==
    IF source_id \in DOMAIN config.quotas \ {"default"} THEN config.quotas[source_id]
    ELSE IF "default" \in DOMAIN config.quotas THEN config.quotas["default"]
    ELSE DefaultQuota

\* the lookup of line 51: the limit of a category
CategoryLimit(config, category) ==
    IF category \in DOMAIN config.limits THEN config.limits[category] ELSE DefaultLimit

\* an item is taken up to and including the one that passes the limit
AdmitsOneMore(count, limit) == count <= limit

\* the test of both phases: the count is below the limit
Admits(count, limit) == count < limit

\* the second phase goes through all the scored items
AllScored(after_source, n) == [i \in 1..n |-> i]

\* the list the second phase goes through: after_source, as positions of
\* the n scored items
SecondPhaseList(after_source, n) == after_source

\* phase 1, one item of scored_items
QuotaSourceStep ==
    /\ q_pc = "source"
    /\ q_at <= Len(q_items)
    /\ LET item == q_items[q_at]
       IN  IF Admits(q_source_counts[item.source_id], SourceQuota(q_config, item.source_id))
           THEN /\ q_after_source' = Append(q_after_source, q_at)
                /\ q_source_counts' =
                       [q_source_counts EXCEPT ![item.source_id] = @ + 1]
           ELSE UNCHANGED <<q_after_source, q_source_counts>>
    /\ q_at' = q_at + 1
    /\ UNCHANGED <<nonQuotaVars, q_items, q_config, q_pc, q_cat_counts, q_result>>

\* phase 1 is over
QuotaSourceDone ==
    /\ q_pc = "source"
    /\ q_at > Len(q_items)
    /\ q_pc' = "category"
    /\ q_at' = 1
    /\ UNCHANGED <<nonQuotaVars, q_items, q_config, q_source_counts, q_after_source,
                   q_cat_counts, q_result>>

\* phase 2, one item of after_source
QuotaCategoryStep ==
    /\ q_pc = "category"
    /\ q_at <= Len(SecondPhaseList(q_after_source, Len(q_items)))
    /\ LET at == SecondPhaseList(q_after_source, Len(q_items))[q_at]
           item == q_items[at]
       IN  IF Admits(q_cat_counts[item.category], CategoryLimit(q_config, item.category))
           THEN /\ q_result' = Append(q_result, at)
                /\ q_cat_counts' = [q_cat_counts EXCEPT ![item.category] = @ + 1]
           ELSE UNCHANGED <<q_result, q_cat_counts>>
    /\ q_at' = q_at + 1
    /\ UNCHANGED <<nonQuotaVars, q_items, q_config, q_pc, q_source_counts, q_after_source>>

\* return result
QuotaReturn ==
    /\ q_pc = "category"
    /\ q_at > Len(SecondPhaseList(q_after_source, Len(q_items)))
    /\ q_pc' = "done"
    /\ UNCHANGED <<nonQuotaVars, q_items, q_config, q_at, q_source_counts,
                   q_after_source, q_cat_counts, q_result>>

\* apply_quotas is called with a list of scored items
InitQuota ==
    /\ AppIdle
    /\ MigIdle
    /\ ClIdle
    /\ ScorerIdle
    /\ ExtraIdle
    /\ q_items \in ScoredLists
    /\ q_config \in QuotaConfigs
    /\ q_pc = "source"
    /\ q_at = 1
    /\ q_source_counts = [s \in QuotaSources |-> 0]
    /\ q_after_source = <<>>
    /\ q_cat_counts = [c \in Categories |-> 0]
    /\ q_result = <<>>

NextQuota ==
    \/ QuotaSourceStep
    \/ QuotaSourceDone
    \/ QuotaCategoryStep
    \/ QuotaReturn

\* ------------------------------------------------------------------------
\* Scorer (backend/denoise/scorer.py)
\* ------------------------------------------------------------------------
\* Factors are in thousandths, weights in hundredths, totals in hundred
\* thousandths, raw popularity values in tenths.

\* the items that are scored: metadata holds the popularity keys of the
\* item, published_at is the age class of the date against the fixed _now,
\* keywords the number of _RELEVANCE_PATTERNS found in title and content
ScoredItems ==
    [ x1 |-> [source_id |-> "A", metadata |-> [k \in {"points"} |-> 10],
              published_at |-> "now", keywords |-> 1,
              cluster_id |-> NoCluster, is_representative |-> FALSE],
      x2 |-> [source_id |-> "A",
              metadata |-> [k \in {"points", "stars"} |-> IF k = "points" THEN 990 ELSE 90],
              published_at |-> "week", keywords |-> 3,
              cluster_id |-> 0, is_representative |-> FALSE],
      x3 |-> [source_id |-> "B", metadata |-> [k \in {"stars"} |-> 5],
              published_at |-> "unparseable", keywords |-> 0,
              cluster_id |-> 0, is_representative |-> TRUE],
      x4 |-> [source_id |-> "B", metadata |-> << >>,
              published_at |-> "future", keywords |-> 5,
              cluster_id |-> NoCluster, is_representative |-> FALSE] ]

\* the batches score_items is called with
BatchPool ==
    { << >>, <<"x1">>, <<"x2">>, <<"x3">>, <<"x1", "x2">>, <<"x2", "x1">>,
      <<"x3", "x4", "x1">>, <<"x1", "x3", "x4">> }

\* Scorer.__init__: the weights, the authority of the sources and the
\* popularity field of the sources of the configs
ScorerConfigs ==
    { [weights |-> [authority |-> 30, recency |-> 25, popularity |-> 20,
                    relevance |-> 20, dup_penalty |-> 5],
       source_authority |-> [s \in {"A"} |-> 900],
       source_popularity_field |-> [s \in {"A"} |-> "stars"]],
      [weights |-> [authority |-> 200, recency |-> 100, popularity |-> 100,
                    relevance |-> 100, dup_penalty |-> 5],
       source_authority |-> [s \in {"A", "B"} |-> 1000],
       source_popularity_field |-> << >>],
      [weights |-> [authority |-> 0, recency |-> -50, popularity |-> 10,
                    relevance |-> 0, dup_penalty |-> 100],
       source_authority |-> << >>,
       source_popularity_field |-> [s \in {"B"} |-> "stars"]] }

\* math.log1p of a raw popularity value
Log1p == [value \in {5, 10, 90, 990, 10000} |->
             CASE value = 5 -> 405 [] value = 10 -> 693 [] value = 90 -> 2303
               [] value = 990 -> 4605 [] value = 10000 -> 6909]

\* _recency: days_ago of published_at, 30 for a date that does not parse,
\* and math.exp(-days_ago / 7.0)
_recency(item) ==
    LET days_ago == CASE item.published_at = "now" -> 0
                      [] item.published_at = "future" -> 0
                      [] item.published_at = "week" -> 7
                      [] OTHER -> 30
    IN  CASE days_ago = 0 -> 1000 [] days_ago = 7 -> 368 [] OTHER -> 14

\* _get_raw_popularity: the hinted field, else the first of the known keys
_get_raw_popularity(meta, field_hint) ==
    LET keys == <<"points", "score", "stars", "likes_count", "likes">>
        held == {i \in 1..Len(keys) : keys[i] \in DOMAIN meta}
    IN  IF field_hint # None /\ field_hint \in DOMAIN meta THEN meta[field_hint]
        ELSE IF held = {} THEN 0
        ELSE meta[keys[CHOOSE i \in held : \A j \in held : i <= j]]

\* _source_popularity_field.get(item.source_id)
FieldHint(config, source_id) ==
    IF source_id \in DOMAIN config.source_popularity_field
    THEN config.source_popularity_field[source_id] ELSE None

\* the raw popularity of an item of the pool
RawOf(config, x) ==
    _get_raw_popularity(ScoredItems[x].metadata, FieldHint(config, ScoredItems[x].source_id))

\* the maxima of the batches before are kept
KeepMax(old) == old

\* score_items: self._batch_source_max = {}
ResetMax(old) == << >>

\* score_items, lines 126-135: the largest raw value per source of the batch
\* over what _batch_source_max holds, and at least 1
BatchSourceMax(config, old, batch) ==
    LET rated == {i \in 1..Len(batch) : RawOf(config, batch[i]) > 0}
        start == ResetMax(old)
        SourcesOf == {ScoredItems[batch[i]].source_id : i \in rated} \cup DOMAIN start
    IN  [s \in SourcesOf |->
            LET most == MaxOf({RawOf(config, batch[i]) :
                                  i \in {j \in rated : ScoredItems[batch[j]].source_id = s}}
                              \cup (IF s \in DOMAIN start THEN {start[s]} ELSE {}))
            IN  IF most < 10 THEN 10 ELSE most]

\* _popularity: log1p(raw) / log1p(max_for_source), at most 1, with 1000
\* for a source without maximum
_popularity(config, batch_source_max, x) ==
    LET value == RawOf(config, x)
        s == ScoredItems[x].source_id
        max_for_source == IF s \in DOMAIN batch_source_max /\ ~(batch_source_max[s] < 10)
                          THEN batch_source_max[s] ELSE 10000
        ratio == (Log1p[value] * 1000) \div Log1p[max_for_source]
    IN  IF value <= 0 THEN 0 ELSE IF ratio > 1000 THEN 1000 ELSE ratio

\* the weighted sum as it is
Unclipped(total) == total

\* max(0.0, min(1.0, total)) and np.clip(totals, 0.0, 1.0)
Clip(total) == IF total < 0 THEN 0 ELSE IF total > 100000 THEN 100000 ELSE total

\* the ScoreBreakdown of an item of the pool that has the cluster_id and
\* is_representative of tag: score_item, and the rows of score_items
BreakdownOf(config, batch_source_max, x, tag) ==
    LET item == ScoredItems[x]
        authority == IF item.source_id \in DOMAIN config.source_authority
                     THEN config.source_authority[item.source_id] ELSE 500
        recency == _recency(item)
        popularity == _popularity(config, batch_source_max, x)
        relevance == IF item.keywords >= 3 THEN 1000 ELSE (item.keywords * 1000) \div 3
        dup_penalty == IF tag.cluster_id = NoCluster THEN 0
                       ELSE IF tag.is_representative THEN 0 ELSE 1000
    IN  [total |-> Clip(config.weights.authority * authority
                        + config.weights.recency * recency
                        + config.weights.popularity * popularity
                        + config.weights.relevance * relevance
                        - config.weights.dup_penalty * dup_penalty),
         authority |-> authority, recency |-> recency, popularity |-> popularity,
         relevance |-> relevance, dup_penalty |-> dup_penalty]

\* the ScoreBreakdown of an item of the pool
Breakdown(config, batch_source_max, x) ==
    BreakdownOf(config, batch_source_max, x, ScoredItems[x])

\* score_items(items): an empty batch returns at once
ScoreItems(batch) ==
    /\ Len(sc_calls) < MaxScoreCalls
    /\ LET maxima == IF batch = << >> THEN sc_batch_source_max
                     ELSE BatchSourceMax(sc_config, sc_batch_source_max, batch)
       IN  /\ sc_batch_source_max' = maxima
           /\ sc_calls' = Append(sc_calls,
                  [kind |-> "score_items", batch |-> batch,
                   results |-> [i \in 1..Len(batch) |->
                                   Breakdown(sc_config, maxima, batch[i])]])
    /\ UNCHANGED <<nonScoreVars, sc_config>>

\* score_item(item)
ScoreItem(x) ==
    /\ Len(sc_calls) < MaxScoreCalls
    /\ sc_calls' = Append(sc_calls,
           [kind |-> "score_item", batch |-> <<x>>,
            results |-> <<Breakdown(sc_config, sc_batch_source_max, x)>>])
    /\ UNCHANGED <<nonScoreVars, sc_config, sc_batch_source_max>>

\* a Scorer was made from a config
InitScorer ==
    /\ AppIdle
    /\ MigIdle
    /\ ClIdle
    /\ QuotaIdle
    /\ ExtraIdle
    /\ sc_config \in ScorerConfigs
    /\ sc_batch_source_max = << >>
    /\ sc_calls = << >>

NextScorer ==
    \/ \E batch \in BatchPool : ScoreItems(batch)
    \/ \E x \in DOMAIN ScoredItems : ScoreItem(x)

\* ------------------------------------------------------------------------
\* LLMSummarizer (backend/digest/summarizer.py)
\* ------------------------------------------------------------------------

\* s[:n]
Slice(s, n) == SubSeq(s, 1, IF Len(s) < n THEN Len(s) ELSE n)

\* a text of n times the character ch
Repeat(ch, n) == [i \in 1..n |-> ch]

\* d[k] = v
Store(d, k, v) == [x \in DOMAIN d \cup {k} |-> IF x = k THEN v ELSE d[x]]

RECURSIVE StoreAll(_, _, _)
\* d[keys[i]] = values[i], one after the other
StoreAll(d, keys, values) ==
    IF keys = <<>> THEN d
    ELSE StoreAll(Store(d, keys[1], values[1]), Tail(keys), Tail(values))

\* the whole title
WholeTitle(item) == item.title

\* _fallback_summary: item.title[:200]
_fallback_summary(item) == Slice(item.title, FallbackCut)

\* _cache_key: the string that is hashed; the sha256 digest of it is taken
\* to be one to one
_cache_key(item) ==
    UrlText[item.url] \o <<":">> \o item.title \o <<":">> \o Slice(item.content, KeyCut)

\* _mock_summary, for source ids that are one capitalised word
_mock_summary(item) == item.title \o <<" -- from ", item.source_id, " (", item.category, ").">>

\* the cache is never looked at
NeverCached(caching, cache, key) == FALSE

\* line 46: self.cache_summaries and cache_key in self._cache
Cached(caching, cache, key) == caching /\ key \in DOMAIN cache

\* the texts a provider call can return: resp.choices[0].message.content or ""
ProviderTexts == {<<"s", "2">>, <<>>}

\* _summarize_one: the mock provider returns its template, a call of the
\* openai, anthropic or local provider returns a text or raises
Outcomes(provider, item) ==
    IF provider = "mock" THEN {[raised |-> FALSE, text |-> _mock_summary(item)]}
    ELSE {[raised |-> TRUE, text |-> <<>>]}
         \cup {[raised |-> FALSE, text |-> t] : t \in ProviderTexts}

\* the items summarize is called with: 1 and 2 have the same url, title and
\* first 200 characters of content, the title of 3 has 201 characters
SummaryItems ==
    { [id |-> 1, url |-> "plain", title |-> <<"A">>, content |-> Repeat("c", 200),
       source_id |-> "A", category |-> "news"],
      [id |-> 2, url |-> "plain", title |-> <<"A">>, content |-> Repeat("c", 200) \o <<"d">>,
       source_id |-> "A", category |-> "news"],
      [id |-> 3, url |-> "b", title |-> Repeat("t", 200) \o <<"u">>, content |-> <<>>,
       source_id |-> "B", category |-> "tips"] }

\* lists of items with distinct ids
SummaryLists ==
    {list \in UNION {[1..n -> SummaryItems] : n \in 0..MaxSummaryItems} :
        \A i, j \in 1..Len(list) : list[i].id = list[j].id => i = j}

\* what a summarize call that returns is remembered by
SummarizeReturn(results, outcomes, cache) ==
    [items |-> sm_items, results |-> results, outcomes |-> outcomes, cache |-> cache,
     cache_before |-> sm_cache_before]

\* a caller calls summarize(items)
SummarizeStart(list) ==
    /\ sm_pc = "ready"
    /\ sm_items' = list
    /\ sm_cache_before' = sm_cache
    /\ sm_pc' = "called"
    /\ UNCHANGED <<nonSumVars, sm_provider, sm_caching, sm_batch, sm_cache,
                   sm_to_summarize, sm_results, sm_outcomes, sm_returns>>

\* summarize, lines 37-51: the items that are in the cache and those that
\* are to be summarized; with none of these it returns
SummarizeCall ==
    /\ sm_pc = "called"
    /\ LET Hit(i) == Cached(sm_caching, sm_cache, _cache_key(sm_items[i]))
           Miss(i) == ~Hit(i)
           positions == [i \in 1..Len(sm_items) |-> i]
           hits == SelectSeq(positions, Hit)
           results == StoreAll(<<>>, [k \in 1..Len(hits) |-> sm_items[hits[k]].id],
                               [k \in 1..Len(hits) |-> sm_cache[_cache_key(sm_items[hits[k]])]])
           to_summarize == SelectSeq(positions, Miss)
       IN  /\ sm_results' = results
           /\ sm_to_summarize' = to_summarize
           /\ sm_outcomes' = <<>>
           /\ IF to_summarize = <<>>
              THEN /\ sm_pc' = "ready"
                   /\ sm_returns' = <<SummarizeReturn(results, <<>>, sm_cache)>>
              ELSE /\ sm_pc' = "gather"
                   /\ sm_returns' = sm_returns
    /\ UNCHANGED <<nonSumVars, sm_items, sm_provider, sm_caching, sm_batch, sm_cache,
                   sm_cache_before>>

\* lines 53-68: one batch of concurrent_requests provider calls is gathered
\* and its texts are stored; after the last batch summarize returns
SummarizeGather(outcome) ==
    /\ sm_pc = "gather"
    /\ LET batch == Slice(sm_to_summarize, sm_batch)
           rest == SubSeq(sm_to_summarize, Len(batch) + 1, Len(sm_to_summarize))
           texts == [k \in 1..Len(batch) |->
                        IF outcome[k].raised THEN _fallback_summary(sm_items[batch[k]])
                        ELSE outcome[k].text]
           results == StoreAll(sm_results, [k \in 1..Len(batch) |-> sm_items[batch[k]].id],
                               texts)
           cache == IF sm_caching
                    THEN StoreAll(sm_cache,
                                  [k \in 1..Len(batch) |-> _cache_key(sm_items[batch[k]])],
                                  texts)
                    ELSE sm_cache
           outcomes == StoreAll(sm_outcomes, batch, [k \in 1..Len(batch) |-> outcome[k]])
       IN  /\ DOMAIN outcome = 1..Len(batch)
           /\ \A k \in 1..Len(batch) :
                  outcome[k] \in Outcomes(sm_provider, sm_items[batch[k]])
           /\ sm_results' = results
           /\ sm_cache' = cache
           /\ sm_outcomes' = outcomes
           /\ sm_to_summarize' = rest
           /\ IF rest = <<>>
              THEN /\ sm_pc' = "ready"
                   /\ sm_returns' = <<SummarizeReturn(results, outcomes, cache)>>
              ELSE /\ sm_pc' = "gather"
                   /\ sm_returns' = sm_returns
    /\ UNCHANGED <<nonSumVars, sm_items, sm_provider, sm_caching, sm_batch, sm_cache_before>>

\* every way the provider calls of a batch can end
BatchOutcomes ==
    [1..Len(Slice(sm_to_summarize, sm_batch)) ->
        UNION {Outcomes(sm_provider, sm_items[i]) : i \in 1..Len(sm_items)}]

\* an LLMSummarizer was made from a config
InitSummarize ==
    /\ AppIdle
    /\ MigIdle
    /\ ClIdle
    /\ QuotaIdle
    /\ ScorerIdle
    /\ GenIdle
    /\ FetchIdle
    /\ CanonIdle
    /\ CallIdle
    /\ sm_pc = "ready"
    /\ sm_items = <<>>
    /\ sm_provider \in {"mock", "openai"}
    /\ sm_caching \in BOOLEAN
    /\ sm_batch \in 1..MaxSummaryItems
    /\ sm_cache = <<>>
    /\ sm_cache_before = <<>>
    /\ sm_to_summarize = <<>>
    /\ sm_results = <<>>
    /\ sm_outcomes = <<>>
    /\ sm_returns = <<>>

NextSummarize ==
    \/ \E list \in SummaryLists : SummarizeStart(list)
    \/ SummarizeCall
    \/ \E outcome \in BatchOutcomes : SummarizeGather(outcome)

\* ------------------------------------------------------------------------
\* DigestGenerator (backend/digest/generator.py)
\* ------------------------------------------------------------------------

\* HardFilter.apply_all of a config without keywords_exclude and without
\* min_popularity: filter_language keeps the items of a source without
\* declared language and those in the language of their source
apply_all(source_lang, list) ==
    LET Keep(item) == item.source_id \notin DOMAIN source_lang
                      \/ item.lang = source_lang[item.source_id]
    IN  SelectSeq(list, Keep)

\* clusters.values(): the roots in the order in which the dict got them,
\* which is the order of the first url cluster of each root
MergedOrder(groups, parent) ==
    LET roots == [k \in 1..Len(groups) |-> find(parent, k - 1)]
        First(k) == \A j \in 1..(k - 1) : roots[j] # roots[k]
        firsts == SelectSeq([k \in 1..Len(groups) |-> k], First)
    IN  [n \in 1..Len(firsts) |-> roots[firsts[n]]]

\* lines 105-107: the items of the clusters, one cluster after the other, as
\* positions of the filtered list
Deduped(groups, parent, merged) ==
    LET order == MergedOrder(groups, parent)
    IN  Extend([n \in 1..Len(order) |-> merged[order[n]]], [n \in 1..Len(order) |-> TRUE])

RECURSIVE SortByTotal(_)
\* line 113: scored.sort(key=lambda x: x[1].total, reverse=True), a stable
\* sort: items of equal total stay in the order they had
SortByTotal(scored) ==
    IF scored = <<>> THEN <<>>
    ELSE LET rest == SortByTotal(Tail(scored))
             above == Cardinality({k \in 1..Len(rest) : rest[k].total > scored[1].total})
         IN  SubSeq(rest, 1, above) \o <<scored[1]>> \o SubSeq(rest, above + 1, Len(rest))

\* the items generate_digest is called with: 1 and 2 have the same canonical
\* url, 1 and 3 are scored alike, 4 is in another language than its source
\* is declared to have by one of the configs
GenItems ==
    { [id |-> 1, url |-> "plain", title |-> <<"A">>, content |-> <<"a", "a", "a">>,
       published_hash |-> 0, x |-> "x1", source_id |-> "A", category |-> "news", lang |-> "en"],
      [id |-> 2, url |-> "slash", title |-> <<"A">>, content |-> <<"a", "a", "a", "b">>,
       published_hash |-> 1, x |-> "x1", source_id |-> "A", category |-> "news", lang |-> "en"],
      [id |-> 3, url |-> "www", title |-> <<>>, content |-> <<"b", "b", "a", "b", "b">>,
       published_hash |-> 1, x |-> "x1", source_id |-> "A", category |-> "blog", lang |-> "en"],
      [id |-> 4, url |-> "b", title |-> <<"A">>, content |-> <<"a", "b", " ", " ", "a">>,
       published_hash |-> 1, x |-> "x3", source_id |-> "B", category |-> "paper", lang |-> "ja"] }

\* lists of rows of the items table
GenLists ==
    {list \in UNION {[1..n -> GenItems] : n \in 0..MaxGenItems} :
        \A i, j \in 1..Len(list) : list[i].id = list[j].id => i = j}

\* the categories an item can have
GenCategories == Categories \cup {"paper", "blog"}

\* the configs a DigestGenerator is made from
GenConfigs ==
    { [source_lang |-> [s \in {"B"} |-> "en"],
       quotas |-> [k \in {"A"} |-> 1],
       limits |-> [k \in {"news"} |-> 3],
       provider |-> "mock"],
      [source_lang |-> << >>,
       quotas |-> [k \in {"default"} |-> 2],
       limits |-> [k \in {"news", "paper"} |-> IF k = "news" THEN 2 ELSE 1],
       provider |-> "openai"] }

\* the weights of the default config
GenWeights ==
    [weights |-> [authority |-> 30, recency |-> 25, popularity |-> 20,
                  relevance |-> 20, dup_penalty |-> 5],
     source_authority |-> [s \in {"A"} |-> 900],
     source_popularity_field |-> << >>]

\* generate_digest, lines 98-102: the hard filters, and cluster_items is
\* called with what they leave
GenFilter ==
    /\ g_pc = "called"
    /\ cl_items' = apply_all(g_source_lang, g_items)
    /\ cl_tags' = [i \in 1..Len(cl_items') |->
                      [cluster_id |-> NoCluster, is_representative |-> FALSE]]
    /\ cl_pc' = "called"
    /\ g_pc' = "cluster"
    /\ UNCHANGED <<appVars, migVars, fetchVars, canonVars, callVars, quotaVars, scoreVars, sumVars, g_items, g_source_lang,
                   g_digest, cl_threshold, cl_groups, cl_reps, cl_parent, cl_at, cl_cands,
                   cl_merged>>

\* lines 104-116: the items of all clusters are scored and sorted, and
\* apply_quotas is called with them
GenScore ==
    /\ g_pc = "cluster"
    /\ cl_pc = "done"
    /\ LET deduped == Deduped(cl_groups, cl_parent, cl_merged)
           batch == [k \in 1..Len(deduped) |-> cl_items[deduped[k]].x]
           maxima == IF batch = << >> THEN sc_batch_source_max
                     ELSE BatchSourceMax(sc_config, sc_batch_source_max, batch)
           scored == [k \in 1..Len(deduped) |->
                         LET item == cl_items[deduped[k]]
                             tag == cl_tags[deduped[k]]
                         IN  [id |-> item.id, source_id |-> item.source_id,
                              category |-> item.category, url |-> item.url,
                              title |-> item.title, content |-> item.content,
                              cluster_id |-> tag.cluster_id,
                              is_representative |-> tag.is_representative,
                              total |-> BreakdownOf(sc_config, maxima, item.x, tag).total]]
       IN  /\ sc_batch_source_max' = maxima
           /\ q_items' = SortByTotal(scored)
    /\ q_pc' = "source"
    /\ q_at' = 1
    /\ q_source_counts' = [s \in QuotaSources |-> 0]
    /\ q_after_source' = <<>>
    /\ q_cat_counts' = [c \in GenCategories |-> 0]
    /\ q_result' = <<>>
    /\ g_pc' = "quota"
    /\ UNCHANGED <<appVars, migVars, fetchVars, canonVars, callVars, clVars, sumVars, sc_config, sc_calls, q_config,
                   g_items, g_source_lang, g_digest>>

\* lines 118-120: summarize is called with the items apply_quotas returned
GenSummarize ==
    /\ g_pc = "quota"
    /\ q_pc = "done"
    /\ sm_items' = [k \in 1..Len(q_result) |-> q_items[q_result[k]]]
    /\ sm_cache_before' = sm_cache
    /\ sm_pc' = "called"
    /\ g_pc' = "summarize"
    /\ UNCHANGED <<appVars, migVars, fetchVars, canonVars, callVars, clVars, quotaVars, scoreVars, g_items, g_source_lang,
                   g_digest, sm_provider, sm_caching, sm_batch, sm_cache, sm_to_summarize,
                   sm_results, sm_outcomes, sm_returns>>

\* lines 122-133: the Digest, an item of a category without section goes
\* to news
GenBuild ==
    /\ g_pc = "summarize"
    /\ sm_pc = "ready"
    /\ LET final == sm_items
           summaries == sm_returns[1].results
           InNews(item) == item.category \notin {"tips", "paper"}
           InTips(item) == item.category = "tips"
           InPapers(item) == item.category = "paper"
           DigestItems(list) ==
               [k \in 1..Len(list) |->
                   [id |-> list[k].id, total |-> list[k].total,
                    cluster_id |-> list[k].cluster_id,
                    is_representative |-> list[k].is_representative,
                    summary |-> IF list[k].id \in DOMAIN summaries
                                THEN summaries[list[k].id] ELSE <<>>]]
       IN  g_digest' = [news |-> DigestItems(SelectSeq(final, InNews)),
                        tips |-> DigestItems(SelectSeq(final, InTips)),
                        papers |-> DigestItems(SelectSeq(final, InPapers))]
    /\ g_pc' = "done"
    /\ UNCHANGED <<appVars, migVars, fetchVars, canonVars, callVars, clVars, quotaVars, scoreVars, sumVars, g_items,
                   g_source_lang>>

\* a DigestGenerator was made from a config and generate_digest is called
\* with a list of items
InitGenerate ==
    /\ AppIdle
    /\ MigIdle
    /\ FetchIdle
    /\ CanonIdle
    /\ CallIdle
    /\ g_pc = "called"
    /\ g_items \in GenLists
    /\ g_digest = <<>>
    /\ \E config \in GenConfigs :
          /\ g_source_lang = config.source_lang
          /\ q_config = [quotas |-> config.quotas, limits |-> config.limits]
          /\ sm_provider = config.provider
    /\ cl_items = <<>>
    /\ cl_threshold = 85
    /\ cl_pc = "idle"
    /\ cl_groups = <<>>
    /\ cl_reps = <<>>
    /\ cl_parent = <<>>
    /\ cl_at = 0
    /\ cl_cands = {}
    /\ cl_merged = <<>>
    /\ cl_tags = <<>>
    /\ q_items = <<>>
    /\ q_pc = "idle"
    /\ q_at = 1
    /\ q_source_counts = <<>>
    /\ q_after_source = <<>>
    /\ q_cat_counts = <<>>
    /\ q_result = <<>>
    /\ sc_config = GenWeights
    /\ sc_batch_source_max = << >>
    /\ sc_calls = << >>
    /\ sm_pc = "idle"
    /\ sm_items = <<>>
    /\ sm_caching = TRUE
    /\ sm_batch = 10
    /\ sm_cache = <<>>
    /\ sm_cache_before = <<>>
    /\ sm_to_summarize = <<>>
    /\ sm_results = <<>>
    /\ sm_outcomes = <<>>
    /\ sm_returns = <<>>

NextGenerate ==
    \/ GenFilter
    \/ ClusterCall
    \/ \E other_cid \in cl_cands : ClusterCompare(other_cid)
    \/ ClusterNextRepresentative
    \/ ClusterTag
    \/ GenScore
    \/ QuotaSourceStep
    \/ QuotaSourceDone
    \/ QuotaCategoryStep
    \/ QuotaReturn
    \/ GenSummarize
    \/ SummarizeCall
    \/ \E outcome \in BatchOutcomes : SummarizeGather(outcome)
    \/ GenBuild

\* ------------------------------------------------------------------------
\* Connectors (backend/connectors/rss.py, api.py, scrape_fallback.py)
\* ------------------------------------------------------------------------

\* what an attempt of a fetch can meet: a response that holds items, a
\* connection that fails (reset, DNS failure, timeout), a response with
\* status 401, 404 or 500, a response whose body does not parse
Encounters == {"items", "connection", "s401", "s404", "s500", "invalid"}

\* stop_after_attempt of the retry decorator of each fetch
StopAfter == [kind \in {"rss", "api", "scrape"} |-> IF kind = "scrape" THEN 2 ELSE 3]

\* what the body of fetch does with what it meets: it returns a list,
\* raises an exception of a class the decorator retries on, or raises
\* another exception.
\* api: 401 and 403 return [], raise_for_status raises ClientResponseError
\* (an aiohttp.ClientError) for every other status from 400, a body that is
\* no JSON raises a ValueError.
\* scrape: raise_for_status raises ClientResponseError for every status from
\* 400, every body is parsed.
\* rss: feedparser holds a URLError (an OSError) as bozo_exception when the
\* connection fails; it does not raise on a status, the body of an error
\* page leaves no entries and a bozo_exception of the parser.
AttemptEnds(kind, met) ==
    CASE met = "items" -> "returns"
      [] met = "connection" -> "retried"
      [] kind = "api" /\ met = "s401" -> "returns"
      [] kind = "api" /\ met \in {"s404", "s500"} -> "retried"
      [] kind = "api" /\ met = "invalid" -> "raises"
      [] kind = "scrape" /\ met \in {"s401", "s404", "s500"} -> "retried"
      [] kind = "scrape" /\ met = "invalid" -> "returns"
      [] OTHER -> "raises"

\* one attempt of fetch under tenacity's retry: the call returns, or the
\* exception is raised again after the last attempt or when it is not one
\* to retry on, or the next attempt follows the wait
FetchAttempt(met) ==
    /\ f_pc = "fetching"
    /\ f_seen' = Append(f_seen, met)
    /\ f_pc' = CASE AttemptEnds(f_kind, met) = "returns" -> "returned"
                 [] AttemptEnds(f_kind, met) = "raises" -> "raised"
                 [] OTHER -> IF Len(f_seen) + 1 < StopAfter[f_kind]
                             THEN "fetching" ELSE "raised"
    /\ UNCHANGED <<nonFetchVars, f_kind>>

\* the fetch of a connector without url returns [] at once
FetchNoUrl ==
    /\ f_pc = "called"
    /\ f_pc' = "returned"
    /\ UNCHANGED <<nonFetchVars, f_kind, f_seen>>

\* the fetch of a connector with url: the first attempt is under way
FetchUrl ==
    /\ f_pc = "called"
    /\ f_pc' = "fetching"
    /\ UNCHANGED <<nonFetchVars, f_kind, f_seen>>

\* the fetch of a connector is called
InitConnector ==
    /\ AppIdle
    /\ MigIdle
    /\ ClIdle
    /\ QuotaIdle
    /\ ScorerIdle
    /\ GenIdle
    /\ SumIdle
    /\ CanonIdle
    /\ CallIdle
    /\ f_kind \in DOMAIN StopAfter
    /\ f_pc = "called"
    /\ f_seen = <<>>

NextConnector ==
    \/ \E met \in Encounters : FetchAttempt(met)
    \/ FetchNoUrl
    \/ FetchUrl

\* ------------------------------------------------------------------------
\* The queries of items (backend/storage/db.py)
\* ------------------------------------------------------------------------

\* rows of items; id is the primary key, published_at the day
QueryRows ==
    { [id |-> 1, source_id |-> "S1", category |-> "news", published_at |-> 1],
      [id |-> 2, source_id |-> "S1", category |-> "news", published_at |-> 1],
      [id |-> 3, source_id |-> "S1", category |-> "news", published_at |-> 2],
      [id |-> 4, source_id |-> "S2", category |-> "tips", published_at |-> 1] }

\* the table in the order the rows were inserted
QueryStores ==
    UNION { {f \in [1..n -> QueryRows] : \A i, j \in 1..n : i # j => f[i] # f[j]} :
            n \in 0..MaxQueryRows }

\* ORDER BY published_at DESC: the statement names no second key, rows of
\* one published_at come in the order the engine's plan yields
OrderByPublishedDesc(rows) ==
    {f \in [1..Cardinality(rows) -> rows] :
        /\ \A i, j \in DOMAIN f : i # j => f[i] # f[j]
        /\ \A i, j \in DOMAIN f : i < j => f[i].published_at >= f[j].published_at}

\* LIMIT limit OFFSET offset
LimitOffset(ordered, limit, offset) ==
    SubSeq(ordered, offset + 1,
           IF Len(ordered) < offset + limit THEN Len(ordered) ELSE offset + limit)

\* the rows of the table in call_args
StoredRows == {call_args.rows[i] : i \in DOMAIN call_args.rows}

get_items_by_source(source_id, limit, offset) ==
    /\ call_pc = "ready"
    /\ \E ordered \in OrderByPublishedDesc({r \in StoredRows : r.source_id = source_id}) :
          call_result' = LimitOffset(ordered, limit, offset)
    /\ call_args' = [rows |-> call_args.rows, by |-> "source_id", value |-> source_id,
                     since |-> NoTime, limit |-> limit, offset |-> offset]
    /\ call_pc' = "returned"
    /\ UNCHANGED nonCallVars

\* since is None (NoTime) or a day
get_items_by_category(category, since, limit) ==
    /\ call_pc = "ready"
    /\ \E ordered \in OrderByPublishedDesc(
              {r \in StoredRows : /\ r.category = category
                                  /\ since # NoTime => r.published_at >= since}) :
          call_result' = LimitOffset(ordered, limit, 0)
    /\ call_args' = [rows |-> call_args.rows, by |-> "category", value |-> category,
                     since |-> since, limit |-> limit, offset |-> 0]
    /\ call_pc' = "returned"
    /\ UNCHANGED nonCallVars

InitQuery ==
    /\ AppIdle
    /\ MigIdle
    /\ ClIdle
    /\ QuotaIdle
    /\ ScorerIdle
    /\ GenIdle
    /\ SumIdle
    /\ FetchIdle
    /\ CanonIdle
    /\ call_pc = "ready"
    /\ \E rows \in QueryStores : call_args = [rows |-> rows]
    /\ call_result = <<>>

NextQuery ==
    \/ \E limit \in {1, 100}, offset \in {0, 1} : get_items_by_source("S1", limit, offset)
    \/ \E since \in {NoTime, 2}, limit \in {1, 100} :
          get_items_by_category("news", since, limit)

\* ------------------------------------------------------------------------
\* save_digest and what it returns (backend/storage/db.py)
\* ------------------------------------------------------------------------

\* cursor.lastrowid after INSERT ... ON CONFLICT DO UPDATE: the rowid of the
\* row the statement inserted; when the statement took the update branch, the
\* rowid of the last row the connection inserted, in whatever table
lastrowid(before, after, last_insert_rowid) ==
    IF Cardinality(after) > Cardinality(before)
    THEN (CHOOSE d \in after : d \notin before).id
    ELSE last_insert_rowid

\* the sections and contents saved, and rowids of rows of other tables
SavedSections == {"news", "tips"}
SavedContents == {"v1", "v2"}
OtherRowids == {7, 8}

\* save_digest(Digest(date, section, content)), of one date: returns
\* cursor.lastrowid or 0
save_digest(section, content) ==
    /\ call_pc \in {"open", "returned"}
    /\ call_args.saves < MaxSaves
    /\ LET after == UpsertDigests(call_args.digests, section, content)
           rowid == lastrowid(call_args.digests, after, call_args.last_insert_rowid)
       IN  /\ call_args' = [digests |-> after, last_insert_rowid |-> rowid,
                            saves |-> call_args.saves + 1,
                            section |-> section, content |-> content]
           /\ call_result' = rowid
    /\ call_pc' = "returned"
    /\ UNCHANGED nonCallVars

\* an INSERT into another table on the same connection (batch_insert_items,
\* upsert_metrics, upsert_source)
InsertElsewhere(rowid) ==
    /\ call_pc \in {"open", "returned"}
    /\ call_args.last_insert_rowid # rowid
    /\ call_args' = [call_args EXCEPT !.last_insert_rowid = rowid]
    /\ call_pc' = "open"
    /\ UNCHANGED <<nonCallVars, call_result>>

InitSaveDigest ==
    /\ AppIdle
    /\ MigIdle
    /\ ClIdle
    /\ QuotaIdle
    /\ ScorerIdle
    /\ GenIdle
    /\ SumIdle
    /\ FetchIdle
    /\ CanonIdle
    /\ call_pc = "open"
    /\ call_args = [digests |-> {}, last_insert_rowid |-> 0, saves |-> 0,
                    section |-> None, content |-> None]
    /\ call_result = 0

NextSaveDigest ==
    \/ \E section \in SavedSections, content \in SavedContents : save_digest(section, content)
    \/ \E rowid \in OtherRowids : InsertElsewhere(rowid)

\* ------------------------------------------------------------------------
\* HardFilter.filter_popularity (backend/denoise/filters.py)
\* ------------------------------------------------------------------------

\* values of metadata: int or float, and a value of another type
Number(n) == [type |-> "number", value |-> n]
NotNumber == [type |-> "str", value |-> 0]

\* scoring.min_popularity of two configs: none, and minima for the sources
\* A and B with an empty dict for D
MinPopularityConfigs ==
    { << >>,
      [s \in {"A", "B", "D"} |->
          CASE s = "A" -> [k \in {"stars"} |-> 10]
            [] s = "B" -> [k \in {"points", "stars"} |-> IF k = "points" THEN 5 ELSE 0]
            [] OTHER -> << >>] }

\* the metadata of the items filtered
FilterMetadata ==
    { << >>,
      [k \in {"stars"} |-> Number(9)],
      [k \in {"stars"} |-> Number(10)],
      [k \in {"stars"} |-> NotNumber],
      [k \in {"points", "stars"} |-> IF k = "points" THEN Number(4) ELSE Number(20)] }

FilterItems ==
    [source_id : {"A", "B", "C", "D"}, metadata : FilterMetadata]

\* lines 117-129: whether the item passes
Passes(min_popularity, item) ==
    IF item.source_id \notin DOMAIN min_popularity THEN TRUE
    ELSE LET thresholds == min_popularity[item.source_id]
             actual(metric_key) == IF metric_key \in DOMAIN item.metadata
                                   THEN item.metadata[metric_key] ELSE Number(0)
         IN  ~\E metric_key \in DOMAIN thresholds :
                 /\ actual(metric_key).type = "number"
                 /\ actual(metric_key).value < thresholds[metric_key]

\* filter_popularity(items) of a HardFilter with the given min_popularity
filter_popularity(min_popularity, list) ==
    /\ call_pc = "ready"
    /\ call_args' = [min_popularity |-> min_popularity, items |-> list]
    /\ call_result' = IF min_popularity = << >> THEN list
                      ELSE LET Keep(item) == Passes(min_popularity, item)
                           IN  SelectSeq(list, Keep)
    /\ call_pc' = "returned"
    /\ UNCHANGED nonCallVars

InitPopularity ==
    /\ AppIdle
    /\ MigIdle
    /\ ClIdle
    /\ QuotaIdle
    /\ ScorerIdle
    /\ GenIdle
    /\ SumIdle
    /\ FetchIdle
    /\ CanonIdle
    /\ call_pc = "ready"
    /\ call_args = << >>
    /\ call_result = << >>

NextPopularity ==
    \E min_popularity \in MinPopularityConfigs, n \in 0..MaxFilterItems :
        \E list \in [1..n -> FilterItems] : filter_popularity(min_popularity, list)

\* ------------------------------------------------------------------------
\* minhash_similarity on its own (backend/denoise/dedup.py)
\* ------------------------------------------------------------------------

\* MinHashSignature(values, num_perm)
MinHashSignature(values, num_perm) == [values |-> values, num_perm |-> num_perm]

\* signatures as compute_minhash(text, num_perm) returns them: num_perm
\* values, each a hash or _MAX_HASH
Signatures ==
    UNION { {MinHashSignature(values, num_perm) : values \in [1..num_perm -> {0, MaxHash}]} :
            num_perm \in {NumPerm - 1, NumPerm} }

\* no position matches
NoMatches(a, b) == 0

\* sum(1 for x, y in zip(a.values, b.values) if x == y)
Matches(a, b) ==
    LET shorter == IF Len(a.values) < Len(b.values) THEN Len(a.values) ELSE Len(b.values)
    IN  Cardinality({i \in 1..shorter : a.values[i] = b.values[i]})

\* minhash_similarity(a, b): matches / a.num_perm, kept as the two numbers
minhash_similarity(a, b) ==
    /\ call_pc = "ready"
    /\ call_args' = [a |-> a, b |-> b]
    /\ call_result' = IF a.num_perm # b.num_perm
                      THEN [raised |-> "ValueError", matches |-> 0, num_perm |-> 0]
                      ELSE [raised |-> None, matches |-> Matches(a, b),
                            num_perm |-> a.num_perm]
    /\ call_pc' = "returned"
    /\ UNCHANGED nonCallVars

InitSimilarity ==
    /\ AppIdle
    /\ MigIdle
    /\ ClIdle
    /\ QuotaIdle
    /\ ScorerIdle
    /\ GenIdle
    /\ SumIdle
    /\ FetchIdle
    /\ CanonIdle
    /\ call_pc = "ready"
    /\ call_args = << >>
    /\ call_result = << >>

NextSimilarity ==
    \E a, b \in Signatures : minhash_similarity(a, b)

\* ------------------------------------------------------------------------
\* The digest command: Item to ItemRecord (backend/pipeline/cli.py)
\* ------------------------------------------------------------------------

\* lang of the sources of the config
ConfigLang == [s \in {"A", "J"} |-> IF s = "A" THEN "en" ELSE "ja"]

\* items as get_items_for_date returns them: category and language are
\* those of the source, metadata is what the connector gave
StoredItems ==
    { [id |-> id, source_id |-> source_id, url |-> "u", title |-> "t", content |-> content,
       category |-> category, language |-> ConfigLang[source_id], metadata |-> metadata] :
        id \in 1..3, source_id \in DOMAIN ConfigLang, content \in {"", "text"},
        category \in {"news", "tips"},
        metadata \in { << >>, [k \in {"stars"} |-> 5], [k \in {"points"} |-> 3] } }

\* item_to_row(i): the dict the digest command builds
item_to_row(i) ==
    [key \in {"id", "source_id", "url", "title", "content", "category", "language",
              "metadata"} |->
        CASE key = "id" -> i.id
          [] key = "source_id" -> i.source_id
          [] key = "url" -> i.url
          [] key = "title" -> i.title
          [] key = "content" -> i.content
          [] key = "category" -> i.category
          [] key = "language" -> i.language
          [] OTHER -> i.metadata]

\* row.get(key, default)
RowGet(row, key, default) == IF key \in DOMAIN row THEN row[key] ELSE default

\* ItemRecord.from_db_row(row): metadata from the key metadata_json, lang
\* from the key lang
from_db_row(row) ==
    [id |-> row["id"], source_id |-> row["source_id"], url |-> row["url"],
     title |-> RowGet(row, "title", ""), content |-> RowGet(row, "content", ""),
     lang |-> RowGet(row, "lang", "en"), category |-> RowGet(row, "category", "news"),
     metadata |-> RowGet(row, "metadata_json", << >>)]

\* the digest command converts a stored item
ConvertItem(i) ==
    /\ call_pc = "ready"
    /\ call_args' = i
    /\ call_result' = [record |-> from_db_row(item_to_row(i)), kept |-> << >>]
    /\ call_pc' = "converted"
    /\ UNCHANGED nonCallVars

\* HardFilter.filter_language of the record
FilterLanguage ==
    /\ call_pc = "converted"
    /\ call_result' = [call_result EXCEPT !.kept = apply_all(ConfigLang, <<call_result.record>>)]
    /\ call_pc' = "filtered"
    /\ UNCHANGED <<nonCallVars, call_args>>

InitConvert ==
    /\ AppIdle
    /\ MigIdle
    /\ ClIdle
    /\ QuotaIdle
    /\ ScorerIdle
    /\ GenIdle
    /\ SumIdle
    /\ FetchIdle
    /\ CanonIdle
    /\ call_pc = "ready"
    /\ call_args = << >>
    /\ call_result = << >>

NextConvert ==
    \/ \E i \in StoredItems : ConvertItem(i)
    \/ FilterLanguage

\* ------------------------------------------------------------------------
\* QuotaManager.__init__ (backend/denoise/quota.py)
\* ------------------------------------------------------------------------

\* scoring.quotas of the configurations: a quota or none for A, for B and
\* for "default"
BuildQuotas ==
    UNION { [keys -> {1, 5}] : keys \in SUBSET {"A", "B", "default"} }

\* d without the key k
Without(d, k) == [x \in DOMAIN d \ {k} |-> d[x]]

\* QuotaManager(config): _source_quotas is the dict scoring["quotas"] of the
\* config itself, and pop("default", 20) takes the key out of that dict; the
\* manager is kept by its _default_quota
QuotaManagerInit ==
    /\ call_pc = "config"
    /\ Len(call_result) < MaxManagers
    /\ LET quotas == call_args.config.quotas
       IN  IF "default" \in DOMAIN quotas
           THEN /\ call_result' = Append(call_result, [_default_quota |-> quotas["default"]])
                /\ call_args' = [call_args EXCEPT !.config.quotas = Without(quotas, "default")]
           ELSE /\ call_result' = Append(call_result, [_default_quota |-> DefaultQuota])
                /\ UNCHANGED call_args
    /\ UNCHANGED <<nonCallVars, call_pc>>

\* the configuration was loaded; loaded is a copy of what it held then
InitBuild ==
    /\ AppIdle
    /\ MigIdle
    /\ ClIdle
    /\ QuotaIdle
    /\ ScorerIdle
    /\ GenIdle
    /\ SumIdle
    /\ FetchIdle
    /\ CanonIdle
    /\ call_pc = "config"
    /\ \E quotas \in BuildQuotas :
          call_args = [config |-> [quotas |-> quotas], loaded |-> [quotas |-> quotas]]
    /\ call_result = << >>

NextBuild == QuotaManagerInit

\* ------------------------------------------------------------------------
\* canonical_url on its own (backend/denoise/dedup.py)
\* ------------------------------------------------------------------------

\* the parts of the urls canonical_url is called with
CanonSchemes ==
    { <<"h", "t", "t", "p">>,
      <<"h", "t", "t", "p", "s">>,
      <<"H", "T", "T", "P", "S">> }

CanonHosts ==
    { <<"e", "x", "a", "m", "p", "l", "e", ".", "c", "o", "m">>,
      <<"w", "w", "w", ".", "e", "x", "a", "m", "p", "l", "e", ".", "c", "o", "m">>,
      <<"E", "x", "a", "m", "p", "l", "e", ".", "c", "o", "m", ".">>,
      <<>>,
      <<"[", ":", ":", "1">> }

CanonPaths ==
    { <<>>,
      <<"/">>,
      <<"/", "/", "a">>,
      <<"/", "p", "a", "t", "h", "/">>,
      <<"/", "p", "a", "t", "h">> }

CanonTails ==
    { <<>>,
      <<" ">>,
      <<"#", "f", "r", "a", "g">>,
      <<"?", "u", "t", "m", "_", "s", "o", "u", "r", "c", "e", "=", "x">>,
      <<"?", "b", "=", "1", "&", "a", "=", "2", "&", "b", "=", "3", "&", "r", "e", "f", "=", "y">> }

\* scheme://host path tail
CanonUrls ==
    {scheme \o <<":", "/", "/">> \o host \o path \o tail :
        scheme \in CanonSchemes, host \in CanonHosts, path \in CanonPaths,
        tail \in CanonTails}

\* a caller canonicalizes a url
Canonicalize ==
    /\ c_pc = "called"
    /\ c_once' = canonical_url(c_url)
    /\ c_pc' = "once"
    /\ UNCHANGED <<nonCanonVars, c_url, c_twice>>

\* and canonicalizes the result
CanonicalizeAgain ==
    /\ c_pc = "once"
    /\ c_twice' = canonical_url(c_once)
    /\ c_pc' = "twice"
    /\ UNCHANGED <<nonCanonVars, c_url, c_once>>

InitCanon ==
    /\ AppIdle
    /\ MigIdle
    /\ ClIdle
    /\ QuotaIdle
    /\ ScorerIdle
    /\ GenIdle
    /\ SumIdle
    /\ FetchIdle
    /\ CallIdle
    /\ c_url \in CanonUrls
    /\ c_pc = "called"
    /\ c_once = <<>>
    /\ c_twice = <<>>

NextCanon ==
    \/ Canonicalize
    \/ CanonicalizeAgain

\* ------------------------------------------------------------------------
\* Specifications
\* ------------------------------------------------------------------------

\* the steps of ingest_all and of its tasks once it has been called
NextTasks ==
    \/ SyncExec
    \/ SyncCommit
    \/ GatherDone
    \/ \E s \in Sources : AcquireSem(s)
    \/ \E s \in Sources, feed \in FeedPool : FetchReturn(s, feed)
    \/ \E s \in Sources, text \in ErrorTexts \cup {TimeoutText} : FetchRaise(s, text)
    \/ \E s \in Sources : DedupStep(s)
    \/ \E s \in Sources : StatusExec(s)
    \/ \E s \in Sources : StatusCommit(s)
    \/ \E s \in Sources : BatchBegin(s)
    \/ \E s \in Sources : BatchChunk(s)
    \/ \E s \in Sources : BatchCommit(s)

\* the ingest command
NextIngest ==
    \/ \E ids \in SelectionPool : StartIngest(ids)
    \/ NextTasks

\* the first ingest_all call on a new database
StartIngestOnce(source_ids) ==
    /\ run = 0
    /\ StartIngest(source_ids)

\* one ingest command
NextLive ==
    \/ \E ids \in SelectionPool : StartIngestOnce(ids)
    \/ NextTasks

\* the event loop runs every coroutine that can go on; asyncio.Semaphore
\* and asyncio.Lock wake their waiters in the order they came, so a task
\* that waits for a permit or for the write lock gets it when it is free
\* again and again; asyncio.wait_for ends a fetch that has neither returned
\* nor raised when request_timeout is over
Fairness ==
    /\ WF_vars(SyncExec)
    /\ WF_vars(SyncCommit)
    /\ WF_vars(GatherDone)
    /\ \A s \in Sources :
           /\ SF_vars(AcquireSem(s))
           /\ WF_vars(\/ \E feed \in FeedPool : FetchReturn(s, feed)
                      \/ \E text \in ErrorTexts \cup {TimeoutText} : FetchRaise(s, text))
           /\ WF_vars(DedupStep(s))
           /\ SF_vars(StatusExec(s))
           /\ WF_vars(StatusCommit(s))
           /\ SF_vars(BatchBegin(s))
           /\ WF_vars(BatchChunk(s))
           /\ WF_vars(BatchCommit(s))

\* the ingest command, with the previous call on record
NextReingest ==
    \/ \E ids \in SelectionPool : StartIngestRecorded(ids)
    \/ NextTasks

\* the digest command
NextDigest ==
    \/ \E chosen \in SUBSET {make_id(u, s) : u \in Urls, s \in Sources} : DigestStart(chosen)
    \/ MetricsBegin(Main)
    \/ MetricsChunk(Main)
    \/ MetricsCommit(Main)
    \/ DigestSaveExec
    \/ DigestSaveCommit

NextDigestFault ==
    \/ DigestMetricsFail
    \/ DigestSaveFails
    \/ DigestCommitFails

\* concurrent tasks that call the DatabaseManager directly
NextClient ==
    \/ \E c \in Clients, rows \in ClientBatchPool : ClientBatchInsert(c, rows)
    \/ \E c \in Clients : BatchBegin(c)
    \/ \E c \in Clients : BatchChunk(c)
    \/ \E c \in Clients : BatchCommit(c)
    \/ \E c \in Clients, rows \in MetricsPool : ClientUpsertMetrics(c, rows)
    \/ \E c \in Clients : MetricsBegin(c)
    \/ \E c \in Clients : MetricsChunk(c)
    \/ \E c \in Clients : MetricsCommit(c)
    \/ \E c \in Clients : ClientUpsertSource(c, "S2", FALSE)
    \/ \E c \in Clients, t \in {NoTime, 1}, e \in {None, "timeout"}, i \in BOOLEAN :
          ClientUpdateStatus(c, "S1", t, e, i)
    \/ \E c \in Clients, sec \in Sections, con \in Contents : ClientSaveDigest(c, sec, con)
    \/ \E c \in Clients : ClientOptimizeFts(c)
    \/ \E c \in Clients : ClientCommit(c)
    \/ \E c \in Clients : ClientVacuum(c)
    \/ \E c \in Clients : ClientVacuumDone(c)
    \/ \E c \in Clients : ClientRead(c, "plain")

NextFault ==
    \/ \E c \in Clients : ClientFailedStatement(c)
    \/ \E c \in Clients : ClientFailedChunk(c)

Next == NextIngest

\* the ingest command on a freshly migrated database
Spec == Init /\ [][Next]_vars

\* repeated ingest commands on one database
SpecReingest == Init /\ [][NextReingest]_vars

\* apply_migrations called repeatedly on one database file, with failures
SpecMigrate == InitMigrate /\ [][NextMigrate]_vars

\* cluster_items on a list of items
SpecCluster == InitCluster /\ [][NextCluster]_vars

\* apply_quotas on a list of scored items
SpecQuota == InitQuota /\ [][NextQuota]_vars

\* score_items and score_item called on one Scorer
SpecScorer == InitScorer /\ [][NextScorer]_vars

\* summarize calls on one LLMSummarizer
SpecSummarize == InitSummarize /\ [][NextSummarize]_vars

\* one ingest command under a fair event loop
SpecLive == Init /\ [][NextLive]_vars /\ Fairness

\* QuotaManagers built one after another from one configuration
SpecBuild == InitBuild /\ [][NextBuild]_vars

\* the conversion of one stored item
SpecConvert == InitConvert /\ [][NextConvert]_vars

\* one minhash_similarity call
SpecSimilarity == InitSimilarity /\ [][NextSimilarity]_vars

\* one filter_popularity call
SpecPopularity == InitPopularity /\ [][NextPopularity]_vars

\* save_digest calls on one connection
SpecSaveDigest == InitSaveDigest /\ [][NextSaveDigest]_vars

\* one query of items
SpecQuery == InitQuery /\ [][NextQuery]_vars

\* canonical_url of a url, and of the result
SpecCanon == InitCanon /\ [][NextCanon]_vars

\* one fetch of a connector
SpecConnector == InitConnector /\ [][NextConnector]_vars

\* one generate_digest call on a new DigestGenerator
SpecGenerate == InitGenerate /\ [][NextGenerate]_vars

\* the digest command on a database that holds some items
SpecDigest == InitStore /\ [][NextDigest]_vars

\* digest commands whose store writes can fail
SpecDigestFault == InitFault /\ [][NextDigest \/ NextDigestFault]_vars

\* concurrent tasks on one DatabaseManager whose database holds some items
SpecStore == InitStore /\ [][NextClient]_vars

\* the same, with failing statements
SpecFault == InitFault /\ [][NextClient \/ NextFault]_vars


\* ------------------------------------------------------------------------
\* Properties
\* ------------------------------------------------------------------------

\* ingest_all has returned its summary
Returned == pc[Main] = "idle" /\ summary.valid

\* the positions of a task inside the per-source pipeline (inside async with sem)
InPipeline == {"fetch", "dedup", "bi_begin", "bi_chunk", "bi_commit", "ss_exec", "ss_commit"}

\* the positions of a write operation between its first statement and its
\* commit or rollback
WritePcs == {"bi_chunk", "bi_commit", "um_chunk", "um_commit", "commit", "vacuum"}

\* the rows of items that belong to source s
ItemsOf(tbl, s) == {r \in tbl : r.source_id = s}

C2_CrossSourceDedup ==
    ( /\ Returned
      /\ selected = {"S2"}
      /\ raw["S2"] = <<"plain">>
      /\ \E r \in items : r.source_id = "S1" /\ r.url = "www" /\ r.ingested_at < run )
    => /\ result["S2"].inserted = 0
       /\ result["S2"].duplicates = 1
       /\ Cardinality({r \in items : r.url \in {"www", "plain"}}) = 1
       /\ CanonOf["www"] = CanonOf["plain"]

\* C3: when ingest_all has returned, every selected source whose connector
\* did not fail has finished with no error in its result, has every fetched
\* url stored and its row recorded as success; every source whose connector
\* failed has error_message set and errors = 1 in its own result; all results
\* are in the summary; and ingest_all is never stuck in gather
C3_FailureIsolation ==
    /\ Returned =>
         \A s \in selected :
            /\ pc[s] = "done"
            /\ [source_id |-> s, result |-> result[s]] \in summary.results
            /\ error[s] = None =>
                 /\ result[s].errors = 0
                 /\ result[s].error_message = None
                 /\ \A i \in 1..Len(raw[s]) :
                        raw[s][i] # "none" =>
                            \E r \in items : r.url_canonical = CanonOf[raw[s][i]]
                 /\ sources[s].last_error = NULL
                 /\ sources[s].error_count = 0
                 /\ sources[s].last_fetch_at = run
            /\ error[s] # None =>
                 /\ result[s].errors = 1
                 /\ result[s].error_message = error[s]
                 /\ result[s].inserted = 0
    /\ pc[Main] = "gather" => ENABLED Next

\* C3 witness: ingest_all of both sources has returned, the connector of S1
\* failed and S2 inserted items
C3_OneFailsOtherInserts ==
    /\ Returned
    /\ selected = Sources
    /\ error["S1"] # None
    /\ error["S2"] = None
    /\ result["S2"].inserted > 0

\* C4: at every instant at most max_concurrent sources are inside the
\* per-source pipeline
C4_BoundedParallelism ==
    Cardinality({s \in Sources : pc[s] \in InPipeline}) <= max_concurrent

\* C4 witness: with max_concurrent = 1 one source is inside the pipeline,
\* writing, while the other waits for the semaphore
C4_OneWaits ==
    /\ max_concurrent = 1
    /\ \E s \in Sources : \E t \in Sources :
          pc[s] = "wait_sem" /\ pc[t] = "bi_chunk"

\* C5: when ingest_all has returned, every selected source whose fetch failed
\* has a non-null last_error and an error_count one greater than before the call
C5_ErrorCountIncrement ==
    \A s \in Sources :
        (Returned /\ s \in selected /\ error[s] # None)
        => /\ sources[s].last_error # NULL
           /\ sources[s].error_count = err_before[s] + 1

\* C6: within one ingest_all call, the status update of a source is written
\* when every row of its batch insert is committed, and once it is written
\* the rows of that source in items do not change
C6_StatusAfterInsert ==
    [][\A s \in Sources :
          /\ (~status_written[s] /\ status_written'[s])
                => /\ ~in_transaction
                   /\ pending[s] = <<>>
                   /\ ItemsOf(items, s) \subseteq Committed.items
          /\ (status_written[s] /\ status_written'[s])
                => ItemsOf(items', s) = ItemsOf(items, s)]_vars

\* C6 witness: a source has inserted rows, written its status and returned
C6_InsertedThenStatus ==
    \E s \in Sources : pc[s] = "done" /\ status_written[s] /\ returned[s] > 0

\* C7: at most one write operation is between its first statement and its
\* commit or rollback, it holds the write lock, and a read is never held back
C7_WriteSerialization ==
    /\ Cardinality({p \in Procs : pc[p] \in WritePcs}) <= 1
    /\ \A p \in Procs : pc[p] \in WritePcs => _write_lock = p
    /\ \A c \in Clients : ClientReady(c) => ENABLED ClientRead(c, "plain")

\* C7 witness: while c1 is inside batch_insert_items, on a store that held no
\* item, the read of c2 has run and found the url c1 is inserting
C7_ReadDuringWrite ==
    /\ pc["c1"] = "bi_commit"
    /\ _write_lock = "c1"
    /\ rollback_image.items = {}
    /\ found["c2"]

\* C8: a write operation whose statement failed has released the write lock
\* with no transaction left open, and no later write fails to begin
C8_FailedWriteCleanup ==
    /\ ~Locked(_write_lock) => ~in_transaction
    /\ \A c \in Clients : error[c] # NestedBeginText

\* C9: the value batch_insert_items returns is the row count of items after
\* the call minus the row count when the call began
C9_ReturnsRowsAdded ==
    [][\A c \in Clients :
          (pc[c] = "bi_commit" /\ pc'[c] = "idle")
          => returned'[c] = Cardinality(items') - Cardinality(rollback_image.items)]_vars

\* C9 witness: a list of three items in two chunks, one of them repeating the
\* canonical url of another, has added two rows to an empty table
C9_TwoOfThree ==
    \E c \in Clients :
        /\ pc[c] = "bi_commit"
        /\ rollback_image.items = {}
        /\ inserted[c] = 2

\* C10: no step changes a field of a row of items, and every committed row
\* stays in the table as it is
C10_ItemsImmutable ==
    [][/\ \A r \in Committed.items : r \in items'
       /\ \A r \in items : \A q \in items' : q.id = r.id => q = r]_vars

\* C10 witness: a source is about to commit a batch from which a row was
\* ignored because its id or url_canonical was already stored
C10_RowIgnored ==
    \E s \in Sources : pc[s] = "bi_commit" /\ inserted[s] < Len(unique[s])

C12_MigrationsIdempotent ==
    (mig_pc = "idle" /\ Len(mig_returns) >= 2
        /\ mig_returns[Len(mig_returns) - 1].ok
        /\ mig_before.faults = mig_faults_left)
    => /\ mig_returns[Len(mig_returns)].ok
       /\ mig_returns[Len(mig_returns)].version = mig_returns[Len(mig_returns) - 1].version
       /\ mig_returns[Len(mig_returns)].applied = 0
       /\ DbFile = mig_before

\* C12 witness: on a new file the first call applied both migrations and
\* returned 2, and the second call has returned
C12_TwiceOnFreshFile ==
    /\ mig_pc = "idle"
    /\ Len(mig_returns) = 2
    /\ mig_returns[1] = MigResult(TRUE, 2, 2)
    /\ mig_returns[2].ok

\* C13: after any apply_migrations call, returned or raised, the recorded
\* versions are 1..k, the schema changes of a migration are in the file if
\* and only if its version is recorded, and none is there in part
C13_MigrationsAtomic ==
    mig_pc = "idle" =>
        /\ \E k \in 0..Len(Migrations) : version_committed = 1..k
        /\ \A i \in 1..Len(Migrations) :
              LET changes == {Migrations[i].statements[j] :
                                 j \in 1..Len(Migrations[i].statements)}
              IN  IF Migrations[i].version \in version_committed
                  THEN changes \subseteq db_objects
                  ELSE changes \cap db_objects = {}

\* the final clusters as sets of positions of the list
ClusterSets == {{cl_merged[cid][j] : j \in 1..Len(cl_merged[cid])} : cid \in DOMAIN cl_merged}

\* C14: after cluster_items on a non-empty list every item has a cluster_id
\* that is not None and is the key of the one returned cluster that holds
\* it, the returned clusters partition the items, and every cluster has
\* exactly one item with is_representative
C14_ClustersPartition ==
    (cl_pc = "done" /\ cl_items # <<>>) =>
        /\ \A i \in 1..Len(cl_items) :
              /\ cl_tags[i].cluster_id # NoCluster
              /\ \A cid \in DOMAIN cl_merged :
                    (\E j \in 1..Len(cl_merged[cid]) : cl_merged[cid][j] = i)
                    <=> cid = cl_tags[i].cluster_id
        /\ \A cid \in DOMAIN cl_merged :
              /\ cl_merged[cid] # <<>>
              /\ \A j, k \in 1..Len(cl_merged[cid]) :
                    cl_merged[cid][j] = cl_merged[cid][k] => j = k
              /\ Cardinality({j \in 1..Len(cl_merged[cid]) :
                                 cl_tags[cl_merged[cid][j]].is_representative}) = 1
        /\ UNION ClusterSets = 1..Len(cl_items)

\* C14 witness: three items were clustered into two clusters, one of them
\* merged from two url clusters
C14_TwoClustersOfThree ==
    /\ cl_pc = "done"
    /\ Len(cl_items) = 3
    /\ Len(cl_groups) = 3
    /\ Cardinality(DOMAIN cl_merged) = 2

\* the url cluster of the item at a position of the list
UrlClusterOf(groups, i) ==
    CHOOSE k \in 1..Len(groups) : \E j \in 1..Len(groups[k]) : groups[k][j] = i

\* two url clusters whose representatives share a band bucket and have
\* matching positions / number of positions >= threshold; sigs are the
\* signatures of the representatives by number of the url cluster
LshEdge(sigs, c, d) ==
    /\ c # d
    /\ \E band_idx \in 0..(NumBands - 1) : Band(sigs[c], band_idx) = Band(sigs[d], band_idx)
    /\ Cardinality({r \in 1..NumPerm : sigs[c][r] = sigs[d][r]}) * 100
           >= cl_threshold * NumPerm

RECURSIVE Component(_, _)
\* the url clusters linked to those of a set by a chain of edges
Component(sigs, set) ==
    LET more == set \cup {d \in 1..Len(sigs) : \E c \in set : LshEdge(sigs, c, d)}
    IN  IF more = set THEN set ELSE Component(sigs, more)

\* the signatures of the representatives of the url clusters of the list
SigsOf(list, groups) ==
    [k \in 1..Len(groups) |-> Representatives(list, groups)[k - 1].sig]

\* C15: two items are in the same returned cluster exactly when their url
\* clusters are linked by a chain of edges (equal canonical urls: the same
\* url cluster), an edge joining two url clusters whose representatives
\* share an LSH band bucket and have a MinHash similarity >= the threshold
C15_ConnectedComponents ==
    (cl_pc = "done" /\ cl_items # <<>>) =>
        LET groups == UrlClusters(cl_items)
            sigs == SigsOf(cl_items, groups)
        IN  \A i, j \in 1..Len(cl_items) :
                (\E set \in ClusterSets : i \in set /\ j \in set)
                <=> UrlClusterOf(groups, j) \in Component(sigs, {UrlClusterOf(groups, i)})

\* C15 witness: three url clusters, the first linked to the third only
\* through the second, are returned as one cluster
C15_ChainMerged ==
    /\ cl_pc = "done"
    /\ Len(cl_groups) = 3
    /\ LET sigs == SigsOf(cl_items, cl_groups)
       IN  \E c, d, e \in 1..Len(sigs) :
              /\ LshEdge(sigs, c, d)
              /\ LshEdge(sigs, d, e)
              /\ c # e
              /\ ~LshEdge(sigs, c, e)
    /\ Cardinality(DOMAIN cl_merged) = 1

OfSource(positions, source_id) ==
    {k \in 1..Len(positions) : q_items[positions[k]].source_id = source_id}
OfCategory(positions, category) ==
    {k \in 1..Len(positions) : q_items[positions[k]].category = category}

\* C17: the list apply_quotas returns is a subsequence of its input in the
\* order of the input, with at most quota (or default quota) items of a
\* source and at most cap items of a category
C17_QuotasRespected ==
    q_pc = "done" =>
        /\ \A k \in 1..Len(q_result) : q_result[k] \in 1..Len(q_items)
        /\ \A k \in 1..(Len(q_result) - 1) : q_result[k] < q_result[k + 1]
        /\ \A s \in QuotaSources :
              LET quota == IF s \in DOMAIN q_config.quotas THEN q_config.quotas[s]
                           ELSE IF "default" \in DOMAIN q_config.quotas
                           THEN q_config.quotas["default"] ELSE DefaultQuota
              IN  Cardinality(OfSource(q_result, s)) <= quota
        /\ \A c \in Categories :
              LET cap == IF c \in DOMAIN q_config.limits THEN q_config.limits[c]
                         ELSE DefaultLimit
              IN  Cardinality(OfCategory(q_result, c)) <= cap

\* C17 witness: a list was cut by a quota and by a cap, and items after the
\* cut ones were kept
C17_CutBySourceAndCategory ==
    /\ q_pc = "done"
    /\ Len(q_after_source) < Len(q_items)
    /\ Len(q_result) < Len(q_after_source)
    /\ Len(q_result) >= 2
    /\ \E k \in 1..(Len(q_result) - 1) : q_result[k + 1] > q_result[k] + 1

\* the item at a position is among the first quota items of its source
AmongFirstOfSource(i) ==
    Cardinality({j \in 1..i : q_items[j].source_id = q_items[i].source_id})
        <= SourceQuota(q_config, q_items[i].source_id)

\* C18: an item is in the returned list exactly when it is among the first
\* quota(source) items of its source and, of the items that are, among the
\* first cap(category) of its category; with quotas A 2, B 10, default 5
\* and cap news 3, of five news items of A and then five of B the first
\* two of A and the first of B are returned
C18_TwoPassGreedy ==
    q_pc = "done" =>
        /\ \A i \in 1..Len(q_items) :
              (\E k \in 1..Len(q_result) : q_result[k] = i)
              <=> /\ AmongFirstOfSource(i)
                  /\ Cardinality({j \in 1..i : /\ AmongFirstOfSource(j)
                                               /\ q_items[j].category = q_items[i].category})
                         <= CategoryLimit(q_config, q_items[i].category)
        /\ (q_items = FiveAndFive /\ "default" \in DOMAIN q_config.quotas
               /\ q_config.quotas["default"] = 5)
           => q_result = <<1, 2, 6>>

\* C18 witness: apply_quotas has returned for the five news items of A and
\* five of B under quotas A 2, B 10, default 5 and cap news 3
C18_FiveAndFiveDone ==
    /\ q_pc = "done"
    /\ q_items = FiveAndFive
    /\ "default" \in DOMAIN q_config.quotas
    /\ q_config.quotas["default"] = 5
    /\ Len(q_after_source) = 7
    /\ Len(q_result) = 3

\* C19: the total of every ScoreBreakdown that score_item and score_items
\* return is at least 0 and at most 1, whatever the weights
C19_TotalInUnitInterval ==
    \A k \in 1..Len(sc_calls) :
        \A i \in 1..Len(sc_calls[k].results) :
            /\ sc_calls[k].results[i].total >= 0
            /\ sc_calls[k].results[i].total <= 100000

\* the weighted sum of the factors of a breakdown under the weights
WeightedSum(bd) ==
    sc_config.weights.authority * bd.authority + sc_config.weights.recency * bd.recency
    + sc_config.weights.popularity * bd.popularity
    + sc_config.weights.relevance * bd.relevance
    - sc_config.weights.dup_penalty * bd.dup_penalty

\* C19 witness: score_item and score_items have returned breakdowns whose
\* weighted sum is above 1, or below 0, with totals 1 and 0
C19_SumOutsideClipped ==
    /\ \E k \in 1..Len(sc_calls) :
          /\ sc_calls[k].kind = "score_item"
          /\ \/ WeightedSum(sc_calls[k].results[1]) > 100000
             \/ WeightedSum(sc_calls[k].results[1]) < 0
    /\ \E k \in 1..Len(sc_calls) :
          /\ sc_calls[k].kind = "score_items"
          /\ \E i \in 1..Len(sc_calls[k].results) :
                \/ WeightedSum(sc_calls[k].results[i]) > 100000
                \/ WeightedSum(sc_calls[k].results[i]) < 0

\* two batches hold the same items, each as often in one as in the other
SameItems(a, b) ==
    \A x \in DOMAIN ScoredItems :
        Cardinality({i \in 1..Len(a) : a[i] = x}) = Cardinality({i \in 1..Len(b) : b[i] = x})

\* C20: two score_items calls on one Scorer (one fixed now) with the same
\* items in the batch, in any order and after any other calls, give every
\* item the same breakdown
C20_OrderAndHistoryFree ==
    \A k, m \in 1..Len(sc_calls) :
        (/\ sc_calls[k].kind = "score_items"
         /\ sc_calls[m].kind = "score_items"
         /\ SameItems(sc_calls[k].batch, sc_calls[m].batch))
        => \A i \in 1..Len(sc_calls[k].batch), j \in 1..Len(sc_calls[m].batch) :
              sc_calls[k].batch[i] = sc_calls[m].batch[j]
              => sc_calls[k].results[i] = sc_calls[m].results[j]

\* C20 witness: a batch was scored, then a batch with a more popular item
\* of the same source, then the first batch in another order
C20_PermutedAfterOtherBatch ==
    /\ Len(sc_calls) = 3
    /\ \A k \in 1..3 : sc_calls[k].kind = "score_items"
    /\ SameItems(sc_calls[1].batch, sc_calls[3].batch)
    /\ sc_calls[1].batch # sc_calls[3].batch
    /\ \E i \in 1..Len(sc_calls[1].batch), j \in 1..Len(sc_calls[2].batch) :
          /\ ScoredItems[sc_calls[1].batch[i]].source_id
                 = ScoredItems[sc_calls[2].batch[j]].source_id
          /\ sc_calls[1].results[i].popularity > 0
          /\ sc_calls[1].results[i].popularity < 1000
          /\ sc_calls[2].results[j].popularity = 1000
          /\ sc_calls[2].batch[j] # sc_calls[1].batch[i]


\* C25: when a digest command has ended, either it raised nothing and the
\* store holds the metrics of all items of its digest and its three
\* sections, or the store holds no metric row and no section of that run.
C25_DigestRunAllOrNothing ==
    (pc[Main] = "idle" /\ digest_runs > 0) =>
        IF error[Main] = None
        THEN /\ \A i \in digest_items :
                    [item_id |-> i, score |-> digest_runs] \in Committed.metrics
             /\ sections_left = <<>>
             /\ \A n \in 1..Len(DigestSections) :
                    \E d \in Committed.digests :
                        /\ d.section = DigestSections[n]
                        /\ d.content = SectionContent(DigestSections[n])
        ELSE /\ \A m \in Committed.metrics : m.score # digest_runs
             /\ sections_left = DigestSections

\* C26: a fetch makes at most 3 attempts, and every attempt but the first
\* follows an attempt that met a failing connection or a 5xx status, never
\* one that met a 4xx status.
C26_RetryPolicy ==
    /\ Len(f_seen) <= 3
    /\ \A k \in 2..Len(f_seen) : f_seen[k - 1] \in {"connection", "s500"}

\* C27: every task of ingest_all that waits for a permit or for its
\* connector eventually ends, ingest_all eventually returns its summary with
\* all permits back in the semaphore, and a source whose fetch ran into the
\* deadline ends with the timeout as its error in its result and its row.
C27_IngestTerminates ==
    /\ \A s \in Sources : (pc[s] \in {"wait_sem", "fetch"}) ~> (pc[s] \in {"done", "raised"})
    /\ (pc[Main] = "gather") ~> (pc[Main] = "idle" /\ summary.valid /\ sem = max_concurrent)
    /\ [](\A s \in Sources :
             (pc[s] = "done" /\ error[s] = TimeoutText) =>
                 /\ result[s].errors = 1
                 /\ result[s].error_message = TimeoutText
                 /\ sources[s].last_error = TimeoutText)

\* with one permit for two sources the first one timed out, and the second
\* one, which waited for the permit, has ended
C27_WaiterRanAfterTimeout ==
    /\ max_concurrent = 1
    /\ selected = Sources
    /\ error["S1"] = TimeoutText
    /\ pc["S1"] = "done"
    /\ pc["S2"] = "done"
    /\ pc[Main] = "idle"

\* the three urls of test_item_canonicalize_url and what is expected of them
U_www_path == <<"h", "t", "t", "p", "s", ":", "/", "/", "w", "w", "w", ".", "e", "x", "a", "m", "p", "l", "e", ".", "c", "o", "m", "/", "p", "a", "t", "h", "/">>
U_http_frag == <<"h", "t", "t", "p", ":", "/", "/", "e", "x", "a", "m", "p", "l", "e", ".", "c", "o", "m", "/", "p", "a", "t", "h", "#", "f", "r", "a", "g">>
U_bare == <<"h", "t", "t", "p", "s", ":", "/", "/", "e", "x", "a", "m", "p", "l", "e", ".", "c", "o", "m">>
U_path == <<"h", "t", "t", "p", "s", ":", "/", "/", "e", "x", "a", "m", "p", "l", "e", ".", "c", "o", "m", "/", "p", "a", "t", "h">>
U_root == <<"h", "t", "t", "p", "s", ":", "/", "/", "e", "x", "a", "m", "p", "l", "e", ".", "c", "o", "m", "/">>

\* C28: canonical_url of https://www.example.com/path/ and of
\* http://example.com/path#frag is https://example.com/path, that of
\* https://example.com is https://example.com/; no canonical url has the
\* scheme http, a host that starts with www., or a fragment.
C28_CanonicalForm ==
    c_pc \in {"once", "twice"} =>
        /\ c_url = U_www_path => c_once = U_path
        /\ c_url = U_http_frag => c_once = U_path
        /\ c_url = U_bare => c_once = U_root
        /\ UrlParse(c_once).scheme # S_http
        /\ UrlParse(c_once).fragment = <<>>
        /\ ~(Len(UrlParse(c_once).netloc) >= 4
             /\ SubSeq(UrlParse(c_once).netloc, 1, 4) = <<"w", "w", "w", ".">>)

\* C29: canonical_url of a canonical url is that canonical url.
C29_Idempotent ==
    c_pc = "twice" => c_twice = c_once

\* what the claim says of one call update_source_status(source_id,
\* last_fetch_at, last_error, increment_errors) that met a row
ThreeWriteModes(before, after, source_id, last_fetch_at, last_error, increment_errors) ==
    /\ DOMAIN after = DOMAIN before
    /\ \A s \in DOMAIN before \ {source_id} : after[s] = before[s]
    /\ last_error = None =>
          after[source_id] = [before[source_id] EXCEPT !.last_fetch_at = last_fetch_at,
                                                       !.last_error = NULL,
                                                       !.error_count = 0]
    /\ (last_error # None /\ increment_errors) =>
          /\ after[source_id].last_error = last_error
          /\ after[source_id].error_count = before[source_id].error_count + 1
    /\ (last_error # None /\ ~increment_errors) =>
          after[source_id] = [before[source_id] EXCEPT !.last_error = last_error]

\* C30: update_source_status without last_error sets last_fetch_at, clears
\* last_error and resets error_count; with last_error and increment_errors it
\* sets last_error and adds 1 to error_count; with last_error and without
\* increment_errors it sets last_error and nothing else of the row; no other
\* row of sources changes.
C30_UpdateSourceStatusModes ==
    [][\A c \in Clients, t \in {NoTime, 1}, e \in {None, "timeout"}, i \in BOOLEAN :
          (ClientUpdateStatus(c, "S1", t, e, i) /\ "S1" \in DOMAIN sources)
              => ThreeWriteModes(sources, sources', "S1", t, e, i)]_vars

\* C31: get_items_by_source and get_items_by_category return the items by
\* published_at descending and, of equal published_at, by id ascending.
C31_OrderedByPublishedThenId ==
    call_pc = "returned" /\ "by" \in DOMAIN call_args =>
        \A i, j \in DOMAIN call_result :
            i < j => \/ call_result[i].published_at > call_result[j].published_at
                     \/ /\ call_result[i].published_at = call_result[j].published_at
                        /\ call_result[i].id < call_result[j].id

\* after a save_digest: one row of each section, and the row of the section
\* saved holds the content saved
OneRowWithLastContent ==
    /\ \A d, e \in call_args.digests : d.section = e.section => d = e
    /\ \E d \in call_args.digests :
          d.section = call_args.section /\ d.content = call_args.content

\* C32: after any save_digest calls the digests table holds at most one row
\* of each (date, section), the row holds the content of the last save_digest
\* of that pair, and save_digest returned the id of that row.
C32_SaveDigestUpsertsAndReturnsId ==
    call_pc = "returned" /\ "saves" \in DOMAIN call_args =>
        /\ OneRowWithLastContent
        /\ \E d \in call_args.digests :
              d.section = call_args.section /\ d.id = call_result

\* the item's source declares minima and the metadata holds, for a declared
\* metric, a number below the minimum
BelowDeclaredMinimum(min_popularity, item) ==
    /\ item.source_id \in DOMAIN min_popularity
    /\ \E metric_key \in DOMAIN min_popularity[item.source_id] :
          /\ metric_key \in DOMAIN item.metadata
          /\ item.metadata[metric_key].type = "number"
          /\ item.metadata[metric_key].value < min_popularity[item.source_id][metric_key]

\* C33: filter_popularity drops an item if and only if its source declares
\* minima and the item's metadata holds, for a declared metric, a number
\* strictly below the minimum; an item without value for the metric and an
\* item of a source without minima are kept.
C33_PopularityGate ==
    call_pc = "returned" /\ "min_popularity" \in DOMAIN call_args =>
        LET Kept(item) == ~BelowDeclaredMinimum(call_args.min_popularity, item)
        IN  call_result = SelectSeq(call_args.items, Kept)

\* the popularity factor the claim gives the item at position i of a batch:
\* raw values are in tenths, factors in thousandths
ClaimedPopularity(config, batch, i) ==
    LET value == RawOf(config, batch[i])
        ofSource == {j \in 1..Len(batch) :
                        ScoredItems[batch[j]].source_id = ScoredItems[batch[i]].source_id}
        most == MaxOf({RawOf(config, batch[j]) : j \in ofSource})
        ratio == (Log1p[value] * 1000) \div Log1p[most]
    IN  IF value <= 0 \/ most < 10 THEN 0
        ELSE IF ratio > 1000 THEN 1000 ELSE ratio

\* C34: in score_items the popularity factor is 0 for an item without numeric
\* popularity value and for an item of a source whose greatest raw popularity
\* in the batch is below 1; otherwise it is log1p(raw) / log1p(greatest raw
\* popularity of the source in the batch), at most 1.
C34_PopularityFactor ==
    \A k \in 1..Len(sc_calls) :
        sc_calls[k].kind = "score_items" =>
            \A i \in 1..Len(sc_calls[k].batch) :
                sc_calls[k].results[i].popularity
                    = ClaimedPopularity(sc_config, sc_calls[k].batch, i)

\* C35: for two signatures of the same num_perm minhash_similarity returns
\* matches / num_perm with 0 <= matches <= num_perm, a value of 0 to 1, and
\* for two equal signatures matches = num_perm, the value 1.
C35_SimilarityBounded ==
    (/\ call_pc = "returned"
     /\ "raised" \in DOMAIN call_result
     /\ call_args.a.num_perm = call_args.b.num_perm)
    => /\ call_result.raised = None
       /\ call_result.num_perm > 0
       /\ 0 <= call_result.matches
       /\ call_result.matches <= call_result.num_perm
       /\ call_args.a = call_args.b => call_result.matches = call_result.num_perm

\* C35 witness: the similarity of a signature of unlike values with itself
\* was computed and is 1
C35_EqualSignaturesCompared ==
    /\ call_pc = "returned"
    /\ "raised" \in DOMAIN call_result
    /\ call_args.a = call_args.b
    /\ call_args.a.num_perm = NumPerm
    /\ \E i, j \in 1..NumPerm : call_args.a.values[i] # call_args.a.values[j]
    /\ call_result.matches = NumPerm

\* C36: when ingest_all has returned, every source whose ingest succeeded
\* reports inserted + duplicates = the number of its raw items with a url,
\* whatever the other sources of the call did meanwhile.
C36_AccountingComplete ==
    \A s \in Sources :
        (Returned /\ s \in selected /\ error[s] = None)
        => result[s].inserted + result[s].duplicates
               = Len(_normalize_items(raw[s], s, run))

\* C37: a read that another task issues while a write transaction is open
\* does not reflect rows of the transaction when it is rolled back: with no
\* transaction open, a url_canonical_exists that returned True found a row
\* that is stored (rows of items are never deleted or changed).
C37_ReadIsolation ==
    \A c \in Clients :
        (found[c] /\ ~in_transaction) => url_canonical_exists(CanonOf["plain"])

\* C38: the ItemRecord the digest command makes of a stored Item has the
\* item's id, source_id, url, title, content, category, language and metadata,
\* and the language gate keeps the record of an item that has the language of
\* its source.
C38_ConversionPreserves ==
    /\ call_pc \in {"converted", "filtered"} /\ "record" \in DOMAIN call_result =>
          /\ call_result.record.id = call_args.id
          /\ call_result.record.source_id = call_args.source_id
          /\ call_result.record.url = call_args.url
          /\ call_result.record.title = call_args.title
          /\ call_result.record.content = call_args.content
          /\ call_result.record.category = call_args.category
          /\ call_result.record.lang = call_args.language
          /\ call_result.record.metadata = call_args.metadata
    /\ call_pc = "filtered" /\ "record" \in DOMAIN call_result =>
          call_result.kept = <<call_result.record>>

\* C39: building a QuotaManager leaves the configuration as it was loaded,
\* and every QuotaManager built from it has the default quota of the
\* configuration (20 when it names none) and its per-source quotas.
C39_ConstructionKeepsConfig ==
    call_pc = "config" =>
        /\ call_args.config = call_args.loaded
        /\ \A k \in 1..Len(call_result) :
              call_result[k]._default_quota
                  = IF "default" \in DOMAIN call_args.loaded.quotas
                    THEN call_args.loaded.quotas["default"] ELSE DefaultQuota

\* C40: with caching on, a summarize call that has returned made no two
\* provider calls for items of one cache key and no provider call for a key
\* the cache held when the call was made (a fallback text included); the
\* cache never loses a key, so over all calls each key has one provider call
\* at most.
C40_ProviderOncePerFingerprint ==
    (sm_caching /\ sm_provider # "mock") =>
        \A k \in 1..Len(sm_returns) :
            \A i \in DOMAIN sm_returns[k].outcomes :
                /\ _cache_key(sm_returns[k].items[i]) \notin DOMAIN sm_returns[k].cache_before
                /\ \A j \in DOMAIN sm_returns[k].outcomes :
                      i # j => _cache_key(sm_returns[k].items[i])
                                   # _cache_key(sm_returns[k].items[j])

\* ids of the items of a list
IdsOf(list) == {list[i].id : i \in 1..Len(list)}

\* C23: every summarize call returns a mapping with an entry for every item
\* id of its input; an item whose provider call raised has the first 200
\* characters of its title, an item whose provider call returned has the
\* text the provider returned, and an item without provider call has the
\* text the cache holds for it.
C23_BestEffortPerItem ==
    \A n \in 1..Len(sm_returns) :
        LET r == sm_returns[n]
        IN  /\ DOMAIN r.results = IdsOf(r.items)
            /\ \A i \in 1..Len(r.items) :
                   LET item == r.items[i]
                   IN  IF i \in DOMAIN r.outcomes
                       THEN IF r.outcomes[i].raised
                            THEN r.results[item.id] =
                                     SubSeq(item.title, 1,
                                            IF Len(item.title) < FallbackCut
                                            THEN Len(item.title) ELSE FallbackCut)
                            ELSE r.results[item.id] = r.outcomes[i].text
                       ELSE /\ sm_caching
                            /\ r.results[item.id] = r.cache[_cache_key(item)]

\* a call of two items returned: the provider call of the item with the
\* long title raised, the other one returned a text
C23_OneFailedOneSummarized ==
    \E n \in 1..Len(sm_returns) :
        LET r == sm_returns[n]
        IN  /\ Len(r.items) = 2
            /\ \E i, j \in DOMAIN r.outcomes :
                   /\ r.outcomes[i].raised
                   /\ Len(r.items[i].title) > FallbackCut
                   /\ ~r.outcomes[j].raised
                   /\ r.outcomes[j].text # <<>>

\* C24: with caching enabled, an item of a summarize call whose fingerprint
\* had a text in the cache when the call was made gets that text and no
\* provider call is made for it, and the cache holds that text ever after.
C24_CacheHitSameText ==
    sm_caching =>
        /\ \A key \in DOMAIN sm_cache_before :
               key \in DOMAIN sm_cache /\ sm_cache[key] = sm_cache_before[key]
        /\ \A n \in 1..Len(sm_returns) :
               LET r == sm_returns[n]
               IN  \A i \in 1..Len(r.items) :
                       _cache_key(r.items[i]) \in DOMAIN r.cache_before =>
                           /\ r.results[r.items[i].id] =
                                  r.cache_before[_cache_key(r.items[i])]
                           /\ i \notin DOMAIN r.outcomes
                           /\ r.cache[_cache_key(r.items[i])] =
                                  r.cache_before[_cache_key(r.items[i])]

\* a call for item 2 returned the text that a provider call of an earlier
\* call returned for item 1, which has the same fingerprint
C24_SecondCallFromCache ==
    /\ sm_caching
    /\ sm_provider # "mock"
    /\ Len(sm_returns) = 1
    /\ Len(sm_returns[1].items) = 1
    /\ sm_returns[1].items[1].id = 2
    /\ sm_returns[1].outcomes = <<>>
    /\ sm_returns[1].results[2] = <<"s", "2">>

\* C21: the list apply_quotas is called with by generate_digest is sorted by
\* total descending, and items of equal total are in ascending order of id.
C21_SortedByTotalThenId ==
    g_pc \in {"quota", "summarize", "done"} =>
        \A k \in 1..(Len(q_items) - 1) :
            \/ q_items[k].total > q_items[k + 1].total
            \/ /\ q_items[k].total = q_items[k + 1].total
               /\ q_items[k].id < q_items[k + 1].id

\* the items of the sections of the digest
DigestEntries ==
    {g_digest.news[k] : k \in 1..Len(g_digest.news)}
    \cup {g_digest.tips[k] : k \in 1..Len(g_digest.tips)}
    \cup {g_digest.papers[k] : k \in 1..Len(g_digest.papers)}

\* C22: the digest generate_digest returns has at most one item of each
\* cluster, and every item of it is the representative of its cluster.
C22_DigestDeduplicated ==
    g_pc = "done" =>
        \A d, f \in DigestEntries :
            /\ d.is_representative
            /\ d.cluster_id = f.cluster_id => d.id = f.id

====
